---- MODULE Spec2Model ----
(***************************************************************************)
(* Iron Dome: the inotify watcher of cyber_iron_dome (InotifyWatcher), the *)
(* kernel side it talks to (directories, files, inotify watches and the    *)
(* event queue) and the orchestrator's construct-then-loop main thread.    *)
(*                                                                         *)
(* Paths are sequences of names (<<"r","d","f">> is /r/d/f), so joining    *)
(* and dirname are computed, not assumed.  Entropy is kept in fixed point, *)
(* Scale units per bit, and is computed from the byte histogram of the     *)
(* data that was read.                                                     *)
(***************************************************************************)
EXTENDS Integers, Sequences, FiniteSets, TLC

\* ------------------------------------------------------------------ bounds
MaxOps == 3        \* filesystem operations other processes perform
MaxIno == 2        \* directories created after start-up
MaxRoots == 2      \* length of the configured path list
MaxFail == 1       \* add_watch calls that fail during one walk
MaxQueue == 2      \* fs.inotify.max_queued_events of the modelled kernel
MaxTime == 2       \* wall-clock timestamps run over 0..MaxTime seconds
MaxGroups == 2     \* groups of a buffer's byte histogram
MaxLogCount == 3   \* a byte value occurs up to 2^MaxLogCount times in a group
MaxRun == 4        \* length of the short buffers of one repeated byte
MaxRuns == 2       \* runs of equal characters in a key file's text
MaxLines == 3      \* lines of /proc/diskstats

\* --------------------------------------------------------- fixed universe
R  == <<"r">>                 \* a root directory that exists
D  == <<"r", "d">>            \* a directory under R
N  == <<"r", "d", "n">>       \* a directory nested under D
M  == <<"m">>                 \* a path that never exists
DF == <<"r", "d", "f">>       \* a regular file in D
X  == <<"r", "x">>            \* a second directory under R, to rename to
XF == <<"r", "x", "f">>       \* a regular file in X

MainDirs  == {R, D, N}
MainFiles == {DF}
AllDirs  == MainDirs \cup {X}
AllFiles == MainFiles \cup {XF}
RootChoices == {R, M, DF}
Pids == {7, 9}                \* processes that may hold /dev/urandom open
BaselineSamples == {{}, {7}}  \* what the probe may find at construction

\* what is at a file path: nothing, a regular file holding data, or an
\* entry that os.walk lists among the files but open() refuses with OSError
\* A file's content is its bytes in data followed by its bytes in tail; the
\* tail is empty unless data holds the file's first ENTROPY_READ_SIZE bytes.
NoFile == [exists |-> FALSE, data |-> << >>, tail |-> << >>, readable |-> FALSE]
File(data) == [exists |-> TRUE, data |-> data, tail |-> << >>, readable |-> TRUE]
Unreadable == [exists |-> TRUE, data |-> << >>, tail |-> << >>, readable |-> FALSE]
LongFile(data, tail) ==
    [exists |-> TRUE, data |-> data, tail |-> tail, readable |-> TRUE]

\* ------------------------------------------------------------ file data
\* A buffer is given by its byte histogram, grouped: a sequence of groups
\* [n |-> number of distinct byte values, c |-> occurrences of each].
\* All counts are powers of two, so that p = c/len and log2(p) are exact,
\* in the code's floating point as well as here.
Scale == 2 ^ 8          \* fixed point: entropy in 1/256 of a bit
ENTROPY_READ_SIZE == 65536

Empty  == << >>                                            \* b""
Text   == << [n |-> 4, c |-> 64] >>                        \* 2.0 bits
Mixed  == << [n |-> 8, c |-> 16], [n |-> 4, c |-> 32] >>   \* 3.5 bits
Edge   == << [n |-> 128, c |-> 1], [n |-> 64, c |-> 2] >>  \* 7.5 bits
Random == << [n |-> 256, c |-> 1] >>                       \* 8.0 bits

Contents == {Empty, Text, Mixed, Edge, Random}

\* the first ENTROPY_READ_SIZE bytes of a long file, and what may follow
\* them; the byte values of a tail are not those of the bytes before it
Zeros  == << [n |-> 1, c |-> 65536] >>                     \* 0.0 bits
Packed == << [n |-> 128, c |-> 512] >>                     \* 7.0 bits
LongHeads == {Zeros, Packed}
LongTails == {Empty, Zeros, Packed}
LongFiles == {LongFile(data, tail) : data \in LongHeads, tail \in LongTails}
InitContents == {Empty, Text, Random}

RECURSIVE BufLen(_)
BufLen(data) ==
    IF data = << >> THEN 0
    ELSE Head(data).n * Head(data).c + BufLen(Tail(data))

\* log2 of a power of two
RECURSIVE Log2(_)
\* mutant: a logarithm that is one too large
Log2_offby1(q) == IF q < 1 THEN 0 ELSE 1 + Log2(q \div 2)

Log2(q) == IF q <= 1 THEN 0 ELSE 1 + Log2(q \div 2)

\* -(p * log2 p) summed over the byte values of one group, p = c / len
RECURSIVE EntropySum(_, _)
\* mutant: the counts are not divided by the length of the data
EntropySum_unnormalised(groups, len) ==
    IF groups = << >> THEN 0
    ELSE LET g == Head(groups)
         IN  g.n * g.c * Log2(len \div g.c) * Scale
             + EntropySum(Tail(groups), len)

EntropySum(groups, len) ==
    IF groups = << >> THEN 0
    ELSE LET g == Head(groups)
         IN  (g.n * g.c * Log2(len \div g.c) * Scale) \div len
             + EntropySum(Tail(groups), len)

_shannon_entropy(data) == EntropySum(data, BufLen(data))

VARIABLES
    fs_dir,             \* [AllDirs -> inode], 0 when no directory is there
    fs_file,            \* [AllFiles -> NoFile or File(data)]
    nextIno,            \* next directory inode number
    k_watch,            \* inotify instance: watch descriptor -> inode
    nextWd,             \* next watch descriptor the kernel hands out
    queue,              \* inotify event queue
    ops,                \* filesystem operations performed so far
    pc,                 \* main thread: "start", "loop", "exited"
    exit_status,        \* process exit status once pc = "exited"
    stdout,             \* what the process printed on standard output
    stderr,             \* what the process printed on standard error
    _baseline_readers,  \* InotifyWatcher._baseline_readers
    _path,              \* InotifyWatcher._path
    _file_entropy,      \* InotifyWatcher._file_entropy
    _wd_to_path,        \* InotifyWatcher._wd_to_path
    batch,              \* events of the current INotify.read() not yet handled
    last,               \* what the last handler run did (history)
    miss,               \* history: path -> its baseline value when a read of
                        \* it last failed, until its next close-after-write
    disk_pc,            \* disk monitor thread: "init", "loop", "dead"
    prev_sectors_read,  \* disk_read_abuse_monitoring's local of that name
    prev_timestamp,     \* disk_read_abuse_monitoring's local of that name
    mon,                \* what the last monitor step sampled and logged (history)
    diskstats,          \* the lines of /proc/diskstats when it is next read
    est,                \* the entropy estimator applied to one buffer
    otp_files,          \* ft_otp: the files of the working directory
    otp_result          \* ft_otp: what the last command did (history)

mainVars == << fs_dir, fs_file, nextIno, k_watch, nextWd, queue, ops, pc,
               exit_status, stdout, stderr, _baseline_readers, _path,
               _file_entropy, _wd_to_path, batch, last, miss >>
monitorVars   == << disk_pc, prev_sectors_read, prev_timestamp, mon, diskstats >>
estimatorVars == << est >>
otpVars       == << otp_files, otp_result >>
auxVars == << monitorVars, estimatorVars, otpVars >>
vars == << mainVars, auxVars >>

fsVars      == << fs_dir, fs_file, nextIno >>
watcherVars == << _baseline_readers, _path, _file_entropy, _wd_to_path >>

\* ----------------------------------------------------- the file system
IsDir(p)  == p \in AllDirs /\ fs_dir[p] # 0
IsFile(p) == p \in AllFiles /\ fs_file[p].exists
Exists(p) == IsDir(p) \/ IsFile(p)          \* os.path.exists

dirname(p) == SubSeq(p, 1, Len(p) - 1)      \* os.path.dirname
basename(p) == p[Len(p)]
Join(root_path, name) == Append(root_path, name)   \* os.path.join

\* mutant: the read has no size and returns the whole file
read_all(file, size) == file.data \o file.tail

\* file.read(size): the whole content when it has no more than size bytes,
\* else its first size bytes, which are the bytes in data
read(file, size) ==
    IF BufLen(file.data) + BufLen(file.tail) <= size
    THEN file.data \o file.tail
    ELSE file.data

\* open(full_path, 'rb') then read(ENTROPY_READ_SIZE), on what is at the
\* path: OSError when it is not a readable regular file
OpenRead(file) ==
    IF file.exists /\ file.readable
    THEN [ok |-> TRUE, data |-> read(file, ENTROPY_READ_SIZE)]
    ELSE [ok |-> FALSE, data |-> << >>]

ReadFile(full_path) ==
    OpenRead(IF full_path \in AllFiles THEN fs_file[full_path] ELSE NoFile)

RECURSIVE SetToSeq(_)
SetToSeq(S) ==
    IF S = {} THEN << >>
    ELSE LET x == CHOOSE y \in S : TRUE IN << x >> \o SetToSeq(S \ {x})

SubDirs(p)   == {q \in AllDirs : Len(q) = Len(p) + 1 /\ dirname(q) = p /\ IsDir(q)}
FileNames(p) == {basename(f) : f \in {g \in AllFiles : dirname(g) = p /\ IsFile(g)}}

\* os.walk(top), top-down: the (root, files) pairs in preorder; a top that
\* is not a directory yields nothing.
RECURSIVE os_walk(_)
RECURSIVE WalkEach(_)
os_walk(top) ==
    IF ~IsDir(top) THEN << >>
    ELSE << [root |-> top, files |-> SetToSeq(FileNames(top))] >>
         \o WalkEach(SetToSeq(SubDirs(top)))
WalkEach(tops) ==
    IF tops = << >> THEN << >>
    ELSE os_walk(Head(tops)) \o WalkEach(Tail(tops))

\* ------------------------------------------------------------ log records
ErrorRecord(kind, p) == [level |-> "error", kind |-> kind, path |-> p]
CriticalRecord(kind) == [level |-> "critical", kind |-> kind]
PlainWarning(kind, p) == [level |-> "warning", kind |-> kind, path |-> p]

\* f"{x:.2f}": the value in hundredths, rounded half to even
Fmt2(v) ==
    LET a  == IF v < 0 THEN 0 - v ELSE v
        q  == (a * 100) \div Scale
        r  == (a * 100) % Scale
        h  == IF 2 * r > Scale \/ (2 * r = Scale /\ q % 2 = 1) THEN q + 1 ELSE q
    IN  IF v < 0 THEN 0 - h ELSE h

NewFileWarning(kind, p, cur, pids) ==
    [level |-> "warning", kind |-> kind, path |-> p,
     cur |-> Fmt2(cur), pids |-> pids]
KnownFileWarning(kind, p, prev, cur, delta, pids) ==
    [level |-> "warning", kind |-> kind, path |-> p,
     prev |-> Fmt2(prev), cur |-> Fmt2(cur), delta |-> Fmt2(delta), pids |-> pids]

\* ------------------------------------------------------------ the watcher
\* The watcher's fields, the inotify instance and the log travel through
\* the handlers as one record W:
\*   path, wd2p, ent : _path, _wd_to_path, _file_entropy
\*   kw, nwd         : the kernel's watch table and next descriptor
\*   log             : records emitted so far by this handler run
Put(d, k, v) == [x \in (DOMAIN d) \cup {k} |-> IF x = k THEN v ELSE d[x]]
EmptyMap == [x \in {} |-> 0]

HIGH_ENTROPY  == (75 * Scale) \div 10      \* 7.5 bits
ENTROPY_DELTA == (15 * Scale) \div 10      \* 1.5 bits

\* INotify.add_watch: the descriptor already watching that inode, if any,
\* else a fresh one.
add_watch(W, root) ==
    LET ino  == fs_dir[root]
        have == {wd \in DOMAIN W.kw : W.kw[wd] = ino}
    IN  IF have # {}
        THEN [W |-> W, wd |-> CHOOSE wd \in have : TRUE]
        ELSE [W |-> [W EXCEPT !.kw = Put(@, W.nwd, ino), !.nwd = @ + 1],
              wd |-> W.nwd]

\* fail: the directories on which add_watch raises OSError in this run.
\* Result: the new W and whether the OSError left the method.
_set_path_and_wd(W, root, fail) ==
    LET W1 == [W EXCEPT !.path = @ \cup {root}]
    IN  IF root \in fail \/ ~IsDir(root)
        THEN [W |-> W1, raised |-> TRUE]
        ELSE LET a == add_watch(W1, root)
             IN  [W |-> [a.W EXCEPT !.wd2p = Put(@, a.wd, root)],
                  raised |-> FALSE]

\* mutant: every file the walk lists gets a baseline value, 0.0 when it
\* is empty or cannot be read
RECURSIVE _set_file_and_entropy_eager(_, _, _)
_set_file_and_entropy_eager(W, root, files) ==
    IF files = << >> THEN W
    ELSE LET full_path == Join(root, Head(files))
             rd == ReadFile(full_path)
             W1 == IF full_path \notin DOMAIN W.ent
                   THEN [W EXCEPT !.ent =
                           Put(@, full_path, IF rd.ok /\ rd.data # << >>
                                             THEN _shannon_entropy(rd.data) ELSE 0)]
                   ELSE W
         IN  _set_file_and_entropy_eager(W1, root, Tail(files))

\* mutant: seeding a baseline above the limit logs the new-file warning
RECURSIVE _set_file_and_entropy_warn(_, _, _)
_set_file_and_entropy_warn(W, root, files) ==
    IF files = << >> THEN W
    ELSE LET full_path == Join(root, Head(files))
             rd == ReadFile(full_path)
             ent == _shannon_entropy(rd.data)
             W1 == IF full_path \notin DOMAIN W.ent /\ rd.ok /\ rd.data # << >>
                   THEN [W EXCEPT
                           !.ent = Put(@, full_path, ent),
                           !.log = IF ent > HIGH_ENTROPY
                                   THEN Append(@, NewFileWarning("new_high", full_path,
                                                                 ent, {}))
                                   ELSE @]
                   ELSE W
         IN  _set_file_and_entropy_warn(W1, root, Tail(files))

RECURSIVE _set_file_and_entropy(_, _, _)
_set_file_and_entropy(W, root, files) ==
    IF files = << >> THEN W
    ELSE LET full_path == Join(root, Head(files))
             rd == ReadFile(full_path)
             W1 == IF full_path \notin DOMAIN W.ent /\ rd.ok /\ rd.data # << >>
                   THEN [W EXCEPT !.ent = Put(@, full_path, _shannon_entropy(rd.data))]
                   ELSE W
         IN  _set_file_and_entropy(W1, root, Tail(files))

\* mutant: the test "root not in self._path" is missing
RECURSIVE WalkLoop_nocheck(_, _, _)
WalkLoop_nocheck(W, listing, fail) ==
    IF listing = << >> THEN [W |-> W, raised |-> FALSE, at |-> << >>]
    ELSE LET root == Head(listing).root
             r == _set_path_and_wd(W, root, fail)
         IN  IF r.raised
             THEN [W |-> r.W, raised |-> TRUE, at |-> root]
             ELSE WalkLoop_nocheck(_set_file_and_entropy(r.W, root, Head(listing).files),
                                   Tail(listing), fail)

\* the body of "for root, _, files in os.walk(dir_path)"
RECURSIVE WalkLoop(_, _, _)
WalkLoop(W, listing, fail) ==
    IF listing = << >> THEN [W |-> W, raised |-> FALSE, at |-> << >>]
    ELSE LET root == Head(listing).root
         IN  IF root \in W.path
             THEN WalkLoop(W, Tail(listing), fail)
             ELSE LET r == _set_path_and_wd(W, root, fail)
                  IN  IF r.raised
                      THEN [W |-> r.W, raised |-> TRUE, at |-> root]
                      ELSE WalkLoop(_set_file_and_entropy(r.W, root, Head(listing).files),
                                    Tail(listing), fail)

\* mutant: the existence check is missing, and os.walk of a path that does
\* not exist yields nothing
_get_dir_path_nocheck(monitored_path) ==
    IF IsFile(monitored_path)
    THEN [found |-> TRUE, dir_path |-> dirname(monitored_path)]
    ELSE [found |-> TRUE, dir_path |-> monitored_path]

\* mutant: a regular file is walked as it is, not replaced by its directory
_get_dir_path_asis(monitored_path) ==
    [found |-> Exists(monitored_path), dir_path |-> monitored_path]

\* _get_dir_path: the directory to walk; found = FALSE is FileNotFoundError
_get_dir_path(monitored_path) ==
    IF ~Exists(monitored_path) THEN [found |-> FALSE, dir_path |-> monitored_path]
    ELSE IF IsFile(monitored_path)
         THEN [found |-> TRUE, dir_path |-> dirname(monitored_path)]
         ELSE [found |-> TRUE, dir_path |-> monitored_path]

\* mutant: the try block is around the loop, so the first path that raises
\* ends the walk of the whole list
RECURSIVE _set_path_and_file_abort(_, _, _)
_set_path_and_file_abort(W, path, fail) ==
    IF path = << >> THEN W
    ELSE LET monitored_path == Head(path)
             g  == _get_dir_path(monitored_path)
             r  == WalkLoop(W, os_walk(g.dir_path), fail)
         IN  IF ~g.found
             THEN [W EXCEPT !.log = Append(@, ErrorRecord("not_found", monitored_path))]
             ELSE IF r.raised
                  THEN [r.W EXCEPT !.log = Append(@, ErrorRecord("add_watch", r.at))]
                  ELSE _set_path_and_file_abort(r.W, Tail(path), fail)

RECURSIVE _set_path_and_file(_, _, _)
_set_path_and_file(W, path, fail) ==
    IF path = << >> THEN W
    ELSE LET monitored_path == Head(path)
             g  == _get_dir_path(monitored_path)
             r  == WalkLoop(W, os_walk(g.dir_path), fail)
             W1 == IF ~g.found
                   THEN [W EXCEPT !.log = Append(@, ErrorRecord("not_found", monitored_path))]
                   ELSE IF r.raised
                        THEN [r.W EXCEPT !.log = Append(@, ErrorRecord("add_watch", r.at))]
                        ELSE r.W
         IN  _set_path_and_file(W1, Tail(path), fail)

\* _join_path, for a descriptor that is a key of _wd_to_path
_join_path(wd, name) == Join(_wd_to_path[wd], name)

\* mutant: the baseline snapshot is not subtracted
CryptoPids_raw(readers) == readers

\* crypto_pids = self._get_urandom_readers() - self._baseline_readers
CryptoPids(readers) == readers \ _baseline_readers

\* mutants: a threshold that is reached rather than exceeded
NewFileAlarm_ge(current_entropy) == current_entropy >= HIGH_ENTROPY
KnownFileAlarm_ge(current_entropy, delta) ==
    current_entropy > HIGH_ENTROPY \/ delta >= ENTROPY_DELTA

\* the two alarm conditions
NewFileAlarm(current_entropy) == current_entropy > HIGH_ENTROPY
KnownFileAlarm(current_entropy, delta) ==
    current_entropy > HIGH_ENTROPY \/ delta > ENTROPY_DELTA

\* the records the branch "full_path not in self._file_entropy" logs
NewFileRecords(full_path, current_entropy, crypto_pids) ==
    IF NewFileAlarm(current_entropy)
    THEN IF crypto_pids # {}
         THEN << NewFileWarning("crypto_new", full_path, current_entropy, crypto_pids) >>
         ELSE << NewFileWarning("new_high", full_path, current_entropy, {}) >>
    ELSE << >>

\* the records the branch of a known path logs
KnownFileRecords(full_path, prev_entropy, current_entropy, crypto_pids) ==
    LET delta == current_entropy - prev_entropy
    IN  IF KnownFileAlarm(current_entropy, delta)
        THEN IF crypto_pids # {}
             THEN << KnownFileWarning("crypto_known", full_path, prev_entropy,
                                      current_entropy, delta, crypto_pids) >>
             ELSE << KnownFileWarning("high_known", full_path, prev_entropy,
                                      current_entropy, delta, {}) >>
        ELSE << >>

\* mutant: a failed read is passed over in silence, as the walk does
DeletedOutcome_silent(W, full_path) == W

\* mutant: a failed read also forgets the path
DeletedOutcome_forget(W, full_path) ==
    [W EXCEPT !.log = Append(@, PlainWarning("deleted", full_path)),
              !.ent = [x \in (DOMAIN @) \ {full_path} |-> @[x]]]

\* except OSError: one warning, nothing else
DeletedOutcome(W, full_path) ==
    [W EXCEPT !.log = Append(@, PlainWarning("deleted", full_path))]

\* mutant: the return is missing, so the empty buffer is scored (0.0) and
\* stored
EmptyOutcome_noreturn(W, full_path) ==
    [W EXCEPT !.log = Append(@, PlainWarning("empty", full_path)),
              !.ent = Put(@, full_path, 0)]

\* if not data: one warning, then return
EmptyOutcome(W, full_path) ==
    [W EXCEPT !.log = Append(@, PlainWarning("empty", full_path))]

\* mutant: the baseline is written only for a path that has none
UpdateBaseline_once(ent, full_path, current_entropy) ==
    IF full_path \in DOMAIN ent THEN ent ELSE Put(ent, full_path, current_entropy)

\* the baseline after a classified event
UpdateBaseline(ent, full_path, current_entropy) == Put(ent, full_path, current_entropy)

\* the rest of the else branch: entropy, probe, classification, update
Classify(W, full_path, data, readers) ==
    LET current_entropy == _shannon_entropy(data)
        crypto_pids == CryptoPids(readers)
        records == IF full_path \notin DOMAIN W.ent
                   THEN NewFileRecords(full_path, current_entropy, crypto_pids)
                   ELSE KnownFileRecords(full_path, W.ent[full_path],
                                         current_entropy, crypto_pids)
    IN  [W EXCEPT !.log = @ \o records,
                  !.ent = UpdateBaseline(@, full_path, current_entropy)]

\* _detect_entropy_anomaly.  readers: what _get_urandom_readers() returns if
\* it is called.  Result: the new W and, as history, what the read gave and
\* the probe's sample if it was taken.
DetectOn(W, full_path, rd, readers) ==
    IF ~rd.ok
    THEN [W |-> DeletedOutcome(W, full_path), read |-> "fail",
          data |-> << >>, sampled |-> {}]
    ELSE IF rd.data = << >>
    THEN [W |-> EmptyOutcome(W, full_path), read |-> "empty",
          data |-> << >>, sampled |-> {}]
    ELSE [W |-> Classify(W, full_path, rd.data, readers), read |-> "ok",
          data |-> rd.data, sampled |-> readers]
_detect_entropy_anomaly(W, full_path, readers) ==
    DetectOn(W, full_path, ReadFile(full_path), readers)

\* ---------------------------------------------------------------- history
\* last: the most recent run of the constructor or of the event handler:
\*   op        "construct", "event", "keyerror"
\*   config    the path list the constructor was given
\*   ev, full_path   the event handled and the path _join_path built
\*   walked, detected   which of the two handlers the event reached
\*   read, data, sampled   the detector's read and the probe's sample
\*   log       the records logged by this run, in order
\*   tree      the directories that stood under the walked paths when the
\*             run began, each with its inode
\*   was_known, prev   whether full_path had a baseline value before the
\*             run, and that value
\*   after_miss   whether the last close-after-write of full_path before
\*             this one failed to read it while it had a baseline value
IsPrefix(a, b) == Len(a) <= Len(b) /\ SubSeq(b, 1, Len(a)) = a
Under(tops) == {d \in AllDirs : IsDir(d) /\ \E t \in tops : IsPrefix(t, d)}
Snapshot(tops) == [d \in Under(tops) |-> fs_dir[d]]

NoEvent == [wd |-> 0, name |-> "", mask |-> {}]
NoLast ==
    [op |-> "none", config |-> << >>, ev |-> NoEvent, full_path |-> << >>,
     walked |-> FALSE, detected |-> FALSE, read |-> "none", data |-> << >>,
     sampled |-> {}, log |-> << >>, tree |-> EmptyMap,
     was_known |-> FALSE, prev |-> 0, after_miss |-> FALSE]

\* -------------------------------------------------- the monitor threads
\* VmRSS values, in kB, the kernel may report
KB(mb) == mb * 1024
MemorySamples ==
    {KB(50), KB(80), KB(81), KB(100), KB(100) + 1, KB(101) - 1, KB(101), KB(200)}

\* what /proc/self/status holds: a VmRSS line with its value, or none
StatusSamples ==
    {[found |-> TRUE, kb |-> memory_kb] : memory_kb \in MemorySamples}
        \cup {[found |-> FALSE, kb |-> 0]}

\* get_memory_usage: int(memory_kb / 1024) for the VmRSS line's value, and 0
\* when the file has no such line
get_memory_usage(status) ==
    IF status.found THEN status.kb \div 1024 ELSE 0

\* mutant: the limits themselves already count
MemoryRecord_ge(memory_usage) ==
    IF memory_usage >= 100
    THEN [level |-> "critical", kind |-> "memory_limit", mb |-> memory_usage]
    ELSE IF memory_usage >= 80
    THEN [level |-> "info", kind |-> "memory_high", mb |-> memory_usage]
    ELSE [level |-> "info", kind |-> "memory", mb |-> memory_usage]

\* the one record memory_usage_monitoring logs for a sample
MemoryRecord(memory_usage) ==
    IF memory_usage > 100
    THEN [level |-> "critical", kind |-> "memory_limit", mb |-> memory_usage]
    ELSE IF memory_usage > 80
    THEN [level |-> "info", kind |-> "memory_high", mb |-> memory_usage]
    ELSE [level |-> "info", kind |-> "memory", mb |-> memory_usage]

\* what get_disk_sectors_read() and time.time() may return: sector totals
\* around 100 MB and 200 MB, wall-clock seconds in any order
SectorsOf(mb) == (mb * 1024 * 1024) \div 512
SectorSamples == {0, SectorsOf(100), SectorsOf(100) + 1, SectorsOf(200)}
Timestamps == 0..MaxTime

\* read_rate_mb_s = (sectors_delta * 512 / (1024 * 1024)) / time_delta, kept
\* as the fraction num / den; time_delta is not zero
ReadRate(sectors_delta, time_delta) ==
    LET bytes_read == sectors_delta * 512
    IN  [num |-> bytes_read, den |-> 1024 * 1024 * time_delta]

\* mutant: the limit itself already counts
RateExceeds_ge(rate, limit) ==
    IF rate.den > 0 THEN rate.num >= limit * rate.den
    ELSE rate.num <= limit * rate.den

\* rate > limit
RateExceeds(rate, limit) ==
    IF rate.den > 0 THEN rate.num > limit * rate.den
    ELSE rate.num < limit * rate.den

\* what one iteration of disk_read_abuse_monitoring logs
DiskRecords(read_rate_mb_s) ==
    IF RateExceeds(read_rate_mb_s, 100)
    THEN << [level |-> "warning", kind |-> "disk_read", rate |-> read_rate_mb_s] >>
    ELSE << >>

\* the majors of the block devices that count as physical disks
PHYSICAL_DISK_MAJORS == {8, 65, 66, 67, 252, 253, 259}

\* A line of /proc/diskstats, split: parts[0] is the major number, parts[1]
\* the minor number and parts[5] the sectors read, each already converted
\* by int().  The lines are those of a few devices: whole disks and their
\* partitions, and loop and device-mapper-like devices that are no disks.
DiskstatsMajors == {8, 253, 7, 254}
DiskstatsMinors == {0, 1}
DiskstatsSectors == {1, 10}
DiskstatsLines ==
    [major : DiskstatsMajors, minor : DiskstatsMinors, sectors : DiskstatsSectors]
DiskstatsSamples == UNION {[1..k -> DiskstatsLines] : k \in 0..MaxLines}

\* mutant: the partitions of a disk count as well
Counted_partitions(parts) == parts.major \in PHYSICAL_DISK_MAJORS

\* the test get_disk_sectors_read applies to a line
Counted(parts) == parts.major \in PHYSICAL_DISK_MAJORS /\ parts.minor = 0

\* get_disk_sectors_read: the total over the lines of the file, in order
RECURSIVE get_disk_sectors_read(_)
get_disk_sectors_read(lines) ==
    IF lines = << >> THEN 0
    ELSE LET parts == Head(lines)
             total == IF Counted(parts) THEN parts.sectors ELSE 0
         IN  total + get_disk_sectors_read(Tail(lines))

\* mutant: after a warning the sample the rate was computed from is kept
StoredSample_quiet(previous, current, records) ==
    IF records = << >> THEN current ELSE previous

\* what an iteration that got past its rate leaves in prev_sectors_read
\* and prev_timestamp: the assignments follow the if, not its branches
StoredSample(previous, current, records) == current

NoMon == [worker |-> "none", found |-> FALSE, kb |-> 0, sectors |-> 0,
          timestamp |-> 0, sectors_delta |-> 0, time_delta |-> 0,
          log |-> << >>]

MonitorsInit ==
    /\ disk_pc = "init"
    /\ prev_sectors_read = 0
    /\ prev_timestamp = 0
    /\ mon = NoMon
    /\ diskstats = << >>

\* ------------------------------------------------- the entropy estimator
\* The buffers the estimator is applied to: histograms of up to MaxGroups
\* groups whose counts are powers of two and whose length is a power of two,
\* and the buffers of one repeated byte.
Pow2(S) == {2 ^ i : i \in S}
Groups == [n : Pow2(0..8), c : Pow2(0..MaxLogCount)]
RECURSIVE Distinct(_)
Distinct(data) == IF data = << >> THEN 0 ELSE Head(data).n + Distinct(Tail(data))
DyadicBuffers ==
    {b \in UNION {[1..k -> Groups] : k \in 1..MaxGroups} :
        /\ \A i, j \in DOMAIN b : i < j => b[i].c > b[j].c
        /\ Distinct(b) <= 256
        /\ BufLen(b) \in Pow2(0..Log2(ENTROPY_READ_SIZE))}
UniformBuffers ==
    {<< [n |-> 1, c |-> k] >> : k \in (1..MaxRun) \cup {ENTROPY_READ_SIZE}}
Buffers == DyadicBuffers \cup UniformBuffers

NoEst == [scored |-> FALSE, data |-> << >>, entropy |-> 0, ent |-> EmptyMap,
          log |-> << >>]
EstimatorIdle == est = NoEst

\* ---------------------------------------------------------------- ft_otp
\* A text is a sequence of runs [ch |-> character, n |-> repetitions].
HexDigits == {"0", "1", "2", "3", "4", "5", "6", "7", "8", "9",
              "a", "b", "c", "d", "e", "f", "A", "B", "C", "D", "E", "F"}
Whitespace == {" ", "\t", "\n", "\r", "\f"}
RunChars == {"a", "z", "\n"}
RunLens == {1, 62, 63, 64}
KeyTexts == UNION {[1..k -> [ch : RunChars, n : RunLens]] : k \in 0..MaxRuns}

RECURSIVE StrLen(_)
StrLen(text) == IF text = << >> THEN 0 ELSE Head(text).n + StrLen(Tail(text))

\* str.strip(): leading and trailing whitespace removed
RECURSIVE lstrip(_)
lstrip(text) ==
    IF text # << >> /\ Head(text).ch \in Whitespace THEN lstrip(Tail(text)) ELSE text
RECURSIVE rstrip(_)
rstrip(text) ==
    IF text # << >> /\ text[Len(text)].ch \in Whitespace
    THEN rstrip(SubSeq(text, 1, Len(text) - 1)) ELSE text
strip(text) == rstrip(lstrip(text))

\* mutant: one of the two conditions is enough
is_hexadecimal_either(hex_key) ==
    StrLen(hex_key) >= 64 \/ \A i \in DOMAIN hex_key : hex_key[i].ch \in HexDigits

is_hexadecimal(hex_key) ==
    LET is_correct_len == StrLen(hex_key) >= 64
        is_hex == \A i \in DOMAIN hex_key : hex_key[i].ch \in HexDigits
    IN  is_correct_len /\ is_hex

\* the files of the working directory
OtpPaths == {"key.txt", "ft_otp.key", "filekey.key"}
OtpAbsent == [exists |-> FALSE, kind |-> "none", text |-> << >>, key |-> ""]
TextFile(text) == [exists |-> TRUE, kind |-> "text", text |-> text, key |-> ""]
\* a Fernet key file: "stored" and "fresh" are valid keys, "garbage" is not
KeyFile(key) == [exists |-> TRUE, kind |-> "fernet_key", text |-> << >>, key |-> key]
\* a Fernet token: text encrypted under key
Token(key, text) == [exists |-> TRUE, kind |-> "token", text |-> text, key |-> key]

\* open_file: the content, or FileNotFoundError
open_file(files, file) ==
    [ok |-> files[file].exists, data |-> files[file].text]

\* get_fernet_key: the stored key, or a generated one written to filekey.key
get_fernet_key(files) ==
    IF files["filekey.key"].exists
    THEN [files |-> files, fernet_key |-> files["filekey.key"].key]
    ELSE [files |-> [files EXCEPT !["filekey.key"] = KeyFile("fresh")],
          fernet_key |-> "fresh"]

\* encrypt_file; Fernet(fernet_key) raises ValueError on a key that is not
\* a Fernet key
encrypt_file(files, hex_file) ==
    LET g == get_fernet_key(files)
        original == strip(open_file(g.files, hex_file).data)
    IN  IF g.fernet_key = "garbage"
        THEN [raised |-> "ValueError", files |-> g.files]
        ELSE [raised |-> "",
              files |-> [g.files EXCEPT !["ft_otp.key"] = Token(g.fernet_key, original)]]

process_hex_file(files, hex_file) ==
    LET rd == open_file(files, hex_file)
        hex_key == strip(rd.data)
    IN  IF ~rd.ok THEN [raised |-> "FileNotFoundError", files |-> files]
        ELSE IF ~is_hexadecimal(hex_key)
        THEN [raised |-> "ValueError", files |-> files]
        ELSE encrypt_file(files, hex_file)

\* decrypt_file: the text of the token in key_file.  open_file raises
\* FileNotFoundError, Fernet(fernet_key) raises ValueError on a key that is
\* not a Fernet key, and decrypt raises InvalidToken on a file that is no
\* token of that key.  The text is returned as it was stored.
decrypt_file(files, key_file) ==
    LET encrypted == files[key_file]
        g == get_fernet_key(files)
    IN  IF ~encrypted.exists
        THEN [raised |-> "FileNotFoundError", files |-> files, text |-> << >>]
        ELSE IF g.fernet_key = "garbage"
        THEN [raised |-> "ValueError", files |-> g.files, text |-> << >>]
        ELSE IF encrypted.kind # "token" \/ encrypted.key # g.fernet_key
        THEN [raised |-> "InvalidToken", files |-> g.files, text |-> << >>]
        ELSE [raised |-> "", files |-> g.files, text |-> encrypted.text]

\* bytes.fromhex on a text of hexadecimal digits: one byte for two digits,
\* ValueError when a digit is left over
fromhex(text) == [ok |-> StrLen(text) % 2 = 0, len |-> StrLen(text) \div 2]

\* The digests HMAC-SHA1 may give for a key and a counter: DIGEST_SIZE bytes.
\* Digest(b, w) ends with byte b, holds the four bytes w where b's low four
\* bits point, and 17 everywhere else.
DIGEST_SIZE == 20
OffsetBytes == {0, 175, 243}                  \* low four bits: 0, 15, 3
Windows == {<< 0, 0, 0, 0 >>, << 255, 255, 255, 255 >>, << 128, 0, 0, 0 >>,
            << 0, 15, 66, 64 >>, << 0, 1, 134, 159 >>}
Digest(b, w) ==
    LET at == b % 16
    IN  [i \in 1..DIGEST_SIZE |->
            IF i = DIGEST_SIZE THEN b
            ELSE IF i - 1 \in at..(at + 3) THEN w[i - at] ELSE 17]
Digests == {Digest(b, w) : b \in OffsetBytes, w \in Windows}

\* dynamic_truncation.  Bytes are counted from 0 in the code and from 1
\* here.  int.from_bytes(four_bytes, 'big') & 0x7FFFFFFF is the big-endian
\* value with the top bit of the first byte cleared.
dynamic_truncation(hmac_bytes) ==
    LET offset_bits == hmac_bytes[DIGEST_SIZE]
        offset == offset_bits % 16
        four_bytes == SubSeq(hmac_bytes, offset + 1, offset + 4)
        code_31bits == (four_bytes[1] % 128) * 2 ^ 24 + four_bytes[2] * 2 ^ 16
                         + four_bytes[3] * 2 ^ 8 + four_bytes[4]
    IN  code_31bits

\* str(n) for n >= 0, and str.zfill
DecimalDigits == << "0", "1", "2", "3", "4", "5", "6", "7", "8", "9" >>
RECURSIVE str(_)
str(n) ==
    IF n < 10 THEN << DecimalDigits[n + 1] >>
    ELSE Append(str(n \div 10), DecimalDigits[(n % 10) + 1])
RECURSIVE zfill(_, _)
zfill(text, width) ==
    IF Len(text) >= width THEN text ELSE zfill(<< "0" >> \o text, width)

\* process_key_file, hmac_bytes being the digest generate_hmac's object
\* gives for the key and the counter of the moment
process_key_file(files, key_file, hmac_bytes) ==
    LET d == decrypt_file(files, key_file)
        decrypted_key == d.text
    IN  IF d.raised # ""
        THEN [raised |-> d.raised, files |-> d.files, otp |-> << >>]
        ELSE IF ~is_hexadecimal(decrypted_key) \/ ~fromhex(decrypted_key).ok
        THEN [raised |-> "ValueError", files |-> d.files, otp |-> << >>]
        ELSE LET code == dynamic_truncation(hmac_bytes)
                 otp == code % 1000000
             IN  [raised |-> "", files |-> d.files, otp |-> zfill(str(otp), 6)]

ValidKeyText == << [ch |-> "a", n |-> 64] >>
NoResult == [op |-> "none", hex_file |-> "", raised |-> "",
             before |-> [f \in OtpPaths |-> OtpAbsent],
             hmac_bytes |-> << >>, otp |-> << >>]
OtpIdle ==
    /\ otp_files = [f \in OtpPaths |-> OtpAbsent]
    /\ otp_result = NoResult

\* ------------------------------------------------------------------- Init
\* R, D, N, X are inodes 1, 2, 3, 4
InitInodes ==
    [d \in AllDirs |-> IF d \in MainDirs THEN Len(d) ELSE Cardinality(MainDirs) + 1]
FailSets == {s \in SUBSET MainDirs : Cardinality(s) <= MaxFail}
\* the configured path lists: up to MaxRoots distinct paths
Configs ==
    {c \in UNION {[1..n -> RootChoices] : n \in 1..MaxRoots} :
        \A i, j \in DOMAIN c : c[i] = c[j] => i = j}

\* the trees the daemon may be started on
FsInit ==
    /\ fs_dir \in {[d \in AllDirs |-> IF d \in MainDirs /\ Len(d) <= k
                                      THEN InitInodes[d] ELSE 0] : k \in 1..3}
    /\ fs_file \in {f \in [AllFiles -> {File(c) : c \in InitContents} \cup {NoFile}] :
                       \A p \in AllFiles : f[p].exists => fs_dir[dirname(p)] # 0}
\* no tree at all, for the specifications that do not run the watcher
FsNone ==
    /\ fs_dir = [d \in AllDirs |-> 0]
    /\ fs_file = [f \in AllFiles |-> NoFile]

\* the process before main has constructed the watcher
ProcessInit ==
    /\ nextIno = Cardinality(AllDirs) + 1
    /\ k_watch = EmptyMap
    /\ nextWd = 1
    /\ queue = << >>
    /\ ops = 0
    /\ pc = "start"
    /\ exit_status = 0
    /\ stdout = << >>
    /\ stderr = << >>
    /\ _baseline_readers = {}
    /\ _path = {}
    /\ _file_entropy = EmptyMap
    /\ _wd_to_path = EmptyMap
    /\ batch = << >>
    /\ last = NoLast
    /\ miss = EmptyMap

Init == FsInit /\ ProcessInit /\ MonitorsInit /\ EstimatorIdle /\ OtpIdle

\* ---------------------------------------------------- the main thread
\* the fields as __init__ sets them before the walk
NewWatcher == [path |-> {}, wd2p |-> EmptyMap, ent |-> EmptyMap,
               kw |-> k_watch, nwd |-> nextWd, log |-> << >>]

\* main's handler of every Exception raised inside its try block: the
\* exception is printed with print(), that is on standard output, and the
\* process exits with status 1
ExceptException(type_name) ==
    /\ stdout' = Append(stdout, type_name)
    /\ stderr' = stderr
    /\ pc' = "exited"
    /\ exit_status' = 1

\* main's test of the watcher after construction ("if not ..._path" negated)
PathCheck_skip(W) == TRUE
PathCheck(W) == W.path # {}

\* log.basicConfig raises (the log file cannot be opened for appending)
LoggingFails ==
    /\ pc = "start"
    /\ ExceptException("OSError")
    /\ last' = [NoLast EXCEPT !.op = "logging"]
    /\ UNCHANGED << fsVars, k_watch, nextWd, queue, ops, watcherVars, batch, miss >>
    /\ UNCHANGED auxVars

\* InotifyWatcher.__init__ followed by main's check of the watch set.
ConstructWith(path, readers, fail) ==
    /\ pc = "start"
    /\ \E W \in {_set_path_and_file(NewWatcher, path, fail)} :
         LET ok == PathCheck(W)
         IN  /\ _baseline_readers' = readers
             /\ _path' = W.path
             /\ _file_entropy' = W.ent
             /\ _wd_to_path' = W.wd2p
             /\ k_watch' = W.kw
             /\ nextWd' = W.nwd
             /\ IF ok THEN /\ pc' = "loop"
                            /\ UNCHANGED << exit_status, stdout, stderr >>
                      ELSE ExceptException("ValueError")
             /\ last' = [NoLast EXCEPT
                           !.op = "construct", !.walked = TRUE, !.config = path,
                           !.tree = Snapshot({IF IsFile(path[i]) THEN dirname(path[i])
                                              ELSE path[i] : i \in DOMAIN path}),
                           !.log = IF ok THEN W.log
                                   ELSE Append(W.log, CriticalRecord("no_valid_path"))]
    /\ UNCHANGED << fsVars, queue, ops, batch, miss >>
    /\ UNCHANGED auxVars

Construct ==
    \E path \in Configs, readers \in BaselineSamples, fail \in FailSets :
        ConstructWith(path, readers, fail)

IsCreateDir(event)  == "CREATE" \in event.mask /\ "ISDIR" \in event.mask
IsCloseWrite(event) == "CLOSE_WRITE" \in event.mask

\* the inputs a handler run can consume: the probe's sample when the
\* detector runs, the failing add_watch calls when a walk runs
ProbeInputs(event) == IF IsCloseWrite(event) THEN SUBSET Pids ELSE {{}}
WatchInputs(event) == IF IsCreateDir(event) THEN FailSets ELSE {{}}

\* mutant: the events of a batch are taken newest first
Pending_newest ==
    LET p == IF batch # << >> THEN batch ELSE queue
    IN  [i \in 1..Len(p) |-> p[Len(p) + 1 - i]]

\* One iteration of "for event in self._inotify.read()".  When the previous
\* batch is used up the iteration starts with the read itself, which blocks
\* until the queue holds events and takes them all.
Pending == IF batch # << >> THEN batch ELSE queue

\* what handling one event does to the watcher and the kernel: the new W
\* and the history record
Handle(event, readers, fail) ==
    LET full_path == _join_path(event.wd, event.name)
        is_create == IsCreateDir(event)
        is_write  == IsCloseWrite(event)
        W0 == [path |-> _path, wd2p |-> _wd_to_path, ent |-> _file_entropy,
               kw |-> k_watch, nwd |-> nextWd, log |-> << >>]
        W1 == IF is_create
              THEN _set_path_and_file(W0, << full_path >>, fail) ELSE W0
        dt == IF is_write
              THEN _detect_entropy_anomaly(W1, full_path, readers)
              ELSE [W |-> W1, read |-> "none", data |-> << >>, sampled |-> {}]
    IN  [W |-> dt.W,
         last |-> [op |-> "event", config |-> << >>, ev |-> event,
                   full_path |-> full_path, walked |-> is_create,
                   detected |-> is_write, read |-> dt.read, data |-> dt.data,
                   sampled |-> dt.sampled, log |-> dt.W.log,
                   tree |-> IF is_create THEN Snapshot({full_path}) ELSE EmptyMap,
                   was_known |-> full_path \in DOMAIN _file_entropy,
                   prev |-> IF full_path \in DOMAIN _file_entropy
                            THEN _file_entropy[full_path] ELSE 0,
                   after_miss |-> is_write /\ full_path \in DOMAIN miss]]

\* the history of failed reads after the handler run recorded in l
Missed(l) ==
    IF ~l.detected THEN miss
    ELSE IF l.read = "fail" /\ l.full_path \in DOMAIN _file_entropy
         THEN Put(miss, l.full_path, _file_entropy[l.full_path])
         ELSE [x \in (DOMAIN miss) \ {l.full_path} |-> miss[x]]

\* self._baseline_readers after the detector has probed /dev/urandom's
\* readers: the sample is subtracted from, never stored
\* mutant: the probe's sample becomes the new baseline
BaselineAfterProbe_refresh(event, readers) ==
    IF IsCloseWrite(event) THEN readers ELSE _baseline_readers
BaselineAfterProbe(event, readers) == _baseline_readers

HandleEvent ==
    /\ pc = "loop"
    /\ Pending # << >>
    /\ batch' = Tail(Pending)
    /\ queue' = IF batch # << >> THEN queue ELSE << >>
    /\ LET event == Head(Pending) IN
       IF event.wd \notin DOMAIN _wd_to_path
       THEN \* _join_path raises KeyError; main prints it and exits 1
            /\ ExceptException("KeyError")
            /\ last' = [NoLast EXCEPT !.op = "keyerror", !.ev = event]
            /\ UNCHANGED << k_watch, nextWd, watcherVars, miss >>
       ELSE \E readers \in ProbeInputs(event), fail \in WatchInputs(event) :
            \E h \in {Handle(event, readers, fail)} :
                /\ _path' = h.W.path
                /\ _file_entropy' = h.W.ent
                /\ _wd_to_path' = h.W.wd2p
                /\ k_watch' = h.W.kw
                /\ nextWd' = h.W.nwd
                /\ last' = h.last
                /\ miss' = Missed(h.last)
                /\ _baseline_readers' = BaselineAfterProbe(event, readers)
                /\ UNCHANGED << pc, exit_status, stdout, stderr >>
    /\ UNCHANGED << fsVars, ops >>
    /\ UNCHANGED auxVars

\* SIGTERM.  The daemon context installs shutdown as the handler, the
\* interpreter calls a handler with (signum, frame) in the main thread, and
\* a call with the wrong number of arguments raises TypeError where the main
\* thread stands, which is inside main's try block.  SystemExit is not an
\* Exception, so a handler that reaches sys.exit(0) ends the process with
\* status 0 and prints nothing.
HandlerArgs == << "signum", "frame" >>
shutdown_params == << >>
shutdown ==
    IF Len(HandlerArgs) = Len(shutdown_params)
    THEN [raises |-> "SystemExit", code |-> 0]
    ELSE [raises |-> "TypeError", code |-> 1]

Sigterm ==
    /\ pc \in {"start", "loop"}
    /\ IF shutdown.raises = "SystemExit"
       THEN /\ pc' = "exited"
            /\ exit_status' = shutdown.code
            /\ UNCHANGED << stdout, stderr >>
       ELSE ExceptException(shutdown.raises)
    /\ last' = [NoLast EXCEPT !.op = "sigterm"]
    /\ UNCHANGED << fsVars, k_watch, nextWd, queue, ops, watcherVars, batch, miss >>
    /\ UNCHANGED auxVars

\* ------------------------------------------------ other processes' actions
WatchesOf(ino) == {wd \in DOMAIN k_watch : k_watch[wd] = ino}

\* the event the kernel queues for the watch on directory dir, if it has
\* one.  A queue that already holds max_queued_events events gets one
\* Q_OVERFLOW event, which belongs to no watch (wd = -1), and the event
\* itself is dropped.
OverflowEvent == [wd |-> -1, name |-> "", mask |-> {"Q_OVERFLOW"}]
Notify(q, dir, name, mask) ==
    LET on == WatchesOf(fs_dir[dir])
    IN  IF on = {} THEN q
        ELSE IF Len(q) < MaxQueue
        THEN Append(q, [wd |-> CHOOSE wd \in on : TRUE, name |-> name, mask |-> mask])
        ELSE IF q[Len(q)] = OverflowEvent THEN q
        ELSE Append(q, OverflowEvent)

MkDir(p) ==
    /\ pc = "loop" /\ ops < MaxOps /\ nextIno <= Cardinality(AllDirs) + MaxIno
    /\ p \in AllDirs /\ p # R
    /\ ~IsDir(p) /\ IsDir(dirname(p))
    /\ fs_dir' = [fs_dir EXCEPT ![p] = nextIno]
    /\ nextIno' = nextIno + 1
    /\ queue' = Notify(queue, dirname(p), basename(p), {"CREATE", "ISDIR"})
    /\ ops' = ops + 1
    /\ UNCHANGED << fs_file, k_watch, nextWd, pc, exit_status,
                    stdout, stderr, watcherVars, batch, last, miss >>
    /\ UNCHANGED auxVars

\* rmdir of an empty directory: the kernel drops its watch and queues IGNORED
RmDir(p) ==
    /\ pc = "loop" /\ ops < MaxOps
    /\ p \in AllDirs /\ p # R
    /\ IsDir(p) /\ SubDirs(p) = {} /\ FileNames(p) = {}
    /\ fs_dir' = [fs_dir EXCEPT ![p] = 0]
    /\ k_watch' = [wd \in (DOMAIN k_watch) \ WatchesOf(fs_dir[p]) |-> k_watch[wd]]
    /\ queue' = Notify(queue, p, "", {"IGNORED"})
    /\ ops' = ops + 1
    /\ UNCHANGED << fs_file, nextIno, nextWd, pc, exit_status,
                    stdout, stderr, watcherVars, batch, last, miss >>
    /\ UNCHANGED auxVars

\* a process opens f for writing (creating it if needed), writes data and
\* closes it
WriteContent(f, file) ==
    /\ pc = "loop" /\ ops < MaxOps
    /\ f \in AllFiles /\ IsDir(dirname(f))
    /\ fs_file' = [fs_file EXCEPT ![f] = file]
    /\ queue' = LET q1 == IF IsFile(f) THEN queue
                          ELSE Notify(queue, dirname(f), basename(f), {"CREATE"})
                IN  Notify(q1, dirname(f), basename(f), {"CLOSE_WRITE"})
    /\ ops' = ops + 1
    /\ UNCHANGED << fs_dir, nextIno, k_watch, nextWd, pc, exit_status,
                    stdout, stderr, watcherVars, batch, last, miss >>
    /\ UNCHANGED auxVars

WriteFile(f, data) == WriteContent(f, File(data))

\* unlink: DELETE is not in the watch mask, so no event is queued
DeleteFile(f) ==
    /\ pc = "loop" /\ ops < MaxOps
    /\ IsFile(f)
    /\ fs_file' = [fs_file EXCEPT ![f] = NoFile]
    /\ ops' = ops + 1
    /\ UNCHANGED << fs_dir, nextIno, k_watch, nextWd, queue, pc,
                    exit_status, stdout, stderr, watcherVars, batch, last, miss >>
    /\ UNCHANGED auxVars

\* rename(src, dst) of a directory that holds no directory: the inode and
\* its files move to dst.  The watch stays on the inode, and the kernel
\* queues nothing, MOVED_FROM, MOVED_TO and MOVE_SELF not being in the watch
\* mask.  Renames alone cannot go on for ever without repeating a state, so
\* they are not counted in ops.
Rename(src, dst) ==
    /\ pc = "loop"
    /\ src \in AllDirs /\ dst \in AllDirs /\ src # R /\ src # dst
    /\ IsDir(src) /\ ~IsDir(dst) /\ IsDir(dirname(dst)) /\ ~IsPrefix(src, dst)
    /\ SubDirs(src) = {}
    /\ \A f \in AllFiles :
          (dirname(f) = src /\ IsFile(f)) => Join(dst, basename(f)) \in AllFiles
    /\ fs_dir' = [fs_dir EXCEPT ![src] = 0, ![dst] = fs_dir[src]]
    /\ fs_file' = [f \in AllFiles |->
                     IF dirname(f) = src THEN NoFile
                     ELSE IF dirname(f) = dst /\ Join(src, basename(f)) \in AllFiles
                     THEN fs_file[Join(src, basename(f))]
                     ELSE fs_file[f]]
    /\ UNCHANGED << nextIno, k_watch, nextWd, queue, ops, pc, exit_status,
                    stdout, stderr, watcherVars, batch, last, miss >>
    /\ UNCHANGED auxVars

Next ==
    \/ LoggingFails
    \/ Construct
    \/ HandleEvent
    \/ Sigterm
    \/ \E p \in MainDirs : MkDir(p)
    \/ \E p \in MainDirs : RmDir(p)
    \/ \E f \in MainFiles, data \in Contents : WriteFile(f, data)
    \/ \E f \in MainFiles : DeleteFile(f)

Spec == Init /\ [][Next]_vars

\* ------------------------------------- the watcher and renamed directories
\* The daemon is started on R, which holds D, X, both or neither, and
\* perhaps D/f.  Other processes create, delete and rename directories and
\* write files under R.
RenameTree ==
    /\ fs_dir \in {[d \in AllDirs |-> IF d = R \/ d \in here THEN InitInodes[d] ELSE 0] :
                     here \in SUBSET {D, X}}
    /\ fs_file \in {[f \in AllFiles |-> IF f = DF THEN x ELSE NoFile] :
                      x \in {NoFile, File(Text)}}
    /\ fs_file[DF].exists => fs_dir[D] # 0

RenameInit == RenameTree /\ ProcessInit /\ MonitorsInit /\ EstimatorIdle /\ OtpIdle
RenameNext ==
    \/ ConstructWith(<< R >>, {}, {})
    \/ HandleEvent
    \/ \E src, dst \in {D, X, N} : Rename(src, dst)
    \/ \E p \in {D, X} : MkDir(p)
    \/ RmDir(D)
    \/ \E f \in AllFiles, data \in {Text, Random} : WriteFile(f, data)
RenameSpec == RenameInit /\ [][RenameNext]_vars

\* ---------------------------------- the watcher on one directory's file
\* The daemon is started on R, which holds D; at D/f there is nothing, an
\* empty file, a file with data, or an entry that cannot be opened.  Other
\* processes write and delete D/f and create D/n.
BaselineTree ==
    /\ fs_dir = [d \in AllDirs |-> IF d \in {R, D} THEN InitInodes[d] ELSE 0]
    /\ fs_file \in {[f \in AllFiles |-> IF f = DF THEN x ELSE NoFile] :
                      x \in {NoFile, Unreadable} \cup {File(c) : c \in InitContents}}

BaselineInit == BaselineTree /\ ProcessInit /\ MonitorsInit /\ EstimatorIdle /\ OtpIdle
BaselineNext ==
    \/ \E readers \in BaselineSamples : ConstructWith(<< R >>, readers, {})
    \/ HandleEvent
    \/ \E data \in Contents : WriteFile(DF, data)
    \/ DeleteFile(DF)
    \/ MkDir(N)
BaselineSpec == BaselineInit /\ [][BaselineNext]_vars

\* ------------------------------------------- the watcher and long files
\* The daemon is started on R, which holds D; other processes write D/f,
\* short or with more than ENTROPY_READ_SIZE bytes.
PrefixTree ==
    /\ fs_dir = [d \in AllDirs |-> IF d \in {R, D} THEN InitInodes[d] ELSE 0]
    /\ fs_file \in {[f \in AllFiles |-> IF f = DF THEN x ELSE NoFile] :
                      x \in {NoFile, File(Text)}}

PrefixInit == PrefixTree /\ ProcessInit /\ MonitorsInit /\ EstimatorIdle /\ OtpIdle
PrefixNext ==
    \/ \E readers \in BaselineSamples : ConstructWith(<< R >>, readers, {})
    \/ HandleEvent
    \/ \E file \in LongFiles \cup {File(Text)} : WriteContent(DF, file)
PrefixSpec == PrefixInit /\ [][PrefixNext]_vars

\* ------------------------------------------ the monitors' specification
\* The monitors run in daemon threads: they stop when the process exits.
\* Nothing in monitors.py refers to the watcher, so a monitor's step leaves
\* every variable of the main thread as it is.
\* mutant: the memory monitor forgets the watcher's baselines
MonitorsLeave_reset ==
    /\ _file_entropy' = EmptyMap
    /\ UNCHANGED << fs_dir, fs_file, nextIno, k_watch, nextWd, queue, ops, pc,
                    exit_status, stdout, stderr, _baseline_readers, _path,
                    _wd_to_path, batch, last, miss >>
    /\ UNCHANGED << estimatorVars, otpVars >>
\* mutant: a monitor's step ends the process
MonitorsLeave_kill ==
    /\ pc' = "exited"
    /\ exit_status' = 1
    /\ UNCHANGED << fs_dir, fs_file, nextIno, k_watch, nextWd, queue, ops,
                    stdout, stderr, _baseline_readers, _path, _file_entropy,
                    _wd_to_path, batch, last, miss >>
    /\ UNCHANGED << estimatorVars, otpVars >>

MonitorsLeave == UNCHANGED << mainVars, estimatorVars, otpVars >>

\* mutant: threads that are no daemon threads outlive the main thread
DaemonThreadAlive_nondaemon == TRUE

\* both monitors are started with daemon=True: they run for as long as the
\* process does, and the process ends with the main thread
DaemonThreadAlive == pc # "exited"

\* one iteration of memory_usage_monitoring, on the status file's content
MemoryStep(status) ==
    /\ DaemonThreadAlive
    /\ mon' = [NoMon EXCEPT !.worker = "memory", !.found = status.found,
                            !.kb = status.kb,
                            !.log = << MemoryRecord(get_memory_usage(status)) >>]
    /\ UNCHANGED << disk_pc, prev_sectors_read, prev_timestamp, diskstats >>
    /\ MonitorsLeave

MemorySample == \E status \in StatusSamples : MemoryStep(status)

\* disk_read_abuse_monitoring before its loop
DiskStartWith(sectors_read, timestamp) ==
    /\ DaemonThreadAlive
    /\ disk_pc = "init"
    /\ prev_sectors_read' = sectors_read
    /\ prev_timestamp' = timestamp
    /\ disk_pc' = "loop"
    /\ mon' = [NoMon EXCEPT !.worker = "disk_start", !.sectors = sectors_read,
                            !.timestamp = timestamp]
    /\ UNCHANGED diskstats
    /\ MonitorsLeave

DiskStart ==
    \E sectors_read \in SectorSamples, timestamp \in Timestamps :
        DiskStartWith(sectors_read, timestamp)

\* one iteration of its loop; the division by a time_delta of zero raises
\* ZeroDivisionError, which nothing catches, and the thread ends
DiskStep(current_sectors_read, current_timestamp) ==
    /\ DaemonThreadAlive
    /\ disk_pc = "loop"
    /\ LET sectors_delta == current_sectors_read - prev_sectors_read
           time_delta == current_timestamp - prev_timestamp
           sampled == [NoMon EXCEPT !.worker = "disk",
                                    !.sectors = current_sectors_read,
                                    !.timestamp = current_timestamp,
                                    !.sectors_delta = sectors_delta,
                                    !.time_delta = time_delta]
       IN  IF time_delta = 0
           THEN /\ disk_pc' = "dead"
                /\ mon' = sampled
                /\ UNCHANGED << prev_sectors_read, prev_timestamp >>
           ELSE \E records \in {DiskRecords(ReadRate(sectors_delta, time_delta))} :
                  /\ mon' = [sampled EXCEPT !.log = records]
                  /\ prev_sectors_read' =
                        StoredSample(prev_sectors_read, current_sectors_read, records)
                  /\ prev_timestamp' =
                        StoredSample(prev_timestamp, current_timestamp, records)
                  /\ disk_pc' = "loop"
    /\ UNCHANGED diskstats
    /\ MonitorsLeave

DiskIteration ==
    \E current_sectors_read \in SectorSamples, current_timestamp \in Timestamps :
        DiskStep(current_sectors_read, current_timestamp)

\* the disk monitor's first sample, taken from the file's lines
DiskStartFrom ==
    \E timestamp \in Timestamps :
        DiskStartWith(get_disk_sectors_read(diskstats), timestamp)

\* the file's lines are any of the samples
DiskstatsInit ==
    /\ FsNone /\ ProcessInit /\ EstimatorIdle /\ OtpIdle
    /\ disk_pc = "init"
    /\ prev_sectors_read = 0
    /\ prev_timestamp = 0
    /\ mon = NoMon
    /\ diskstats \in DiskstatsSamples
DiskstatsNext == DiskStartFrom
DiskstatsSpec == DiskstatsInit /\ [][DiskstatsNext]_vars

MonInit == FsNone /\ ProcessInit /\ MonitorsInit /\ EstimatorIdle /\ OtpIdle
MonNext == MemorySample \/ DiskStart \/ DiskIteration
MonSpec == MonInit /\ [][MonNext]_vars

\* ------------------------------------- the three workers of the daemon
\* main starts both monitor threads and then constructs the watcher and
\* runs its loop: the steps of the three interleave in any order.  The
\* daemon is started on R, which holds D and D/f, and is fed a few samples.
DaemonTree ==
    /\ fs_dir = [d \in AllDirs |-> IF d \in {R, D} THEN InitInodes[d] ELSE 0]
    /\ fs_file = [f \in AllFiles |-> IF f = DF THEN File(Text) ELSE NoFile]
DaemonStatus == {[found |-> TRUE, kb |-> KB(50)], [found |-> TRUE, kb |-> KB(200)]}
DaemonSectors == {0, SectorsOf(200)}
DaemonTimes == {0, 1}

DaemonInit == DaemonTree /\ ProcessInit /\ MonitorsInit /\ EstimatorIdle /\ OtpIdle
DaemonNext ==
    \/ \E path \in {<< R >>, << M >>}, readers \in BaselineSamples :
          ConstructWith(path, readers, {})
    \/ HandleEvent
    \/ Sigterm
    \/ \E data \in {Text, Random} : WriteFile(DF, data)
    \/ \E status \in DaemonStatus : MemoryStep(status)
    \/ DiskStartWith(0, 0)
    \/ \E sectors_read \in DaemonSectors, timestamp \in DaemonTimes :
          DiskStep(sectors_read, timestamp)
DaemonSpec == DaemonInit /\ [][DaemonNext]_vars

\* ---------------------------------------- the estimator's specification
\* _shannon_entropy applied to the buffer, and the buffer classified as the
\* first close-after-write of /r/d/f by a watcher that knows no file
Estimate ==
    /\ ~est.scored
    /\ \E readers \in SUBSET Pids :
         \E W \in {Classify(NewWatcher, DF, est.data, readers)} :
           est' = [est EXCEPT !.scored = TRUE,
                              !.entropy = _shannon_entropy(est.data),
                              !.ent = W.ent, !.log = W.log]
    /\ UNCHANGED << mainVars, monitorVars, otpVars >>

EstimatorInit ==
    /\ FsNone /\ ProcessInit /\ MonitorsInit /\ OtpIdle
    /\ est \in {[NoEst EXCEPT !.data = b] : b \in Buffers}
EstimatorNext == Estimate
EstimatorSpec == EstimatorInit /\ [][EstimatorNext]_vars

\* -------------------------------------------- ft_otp's specification
\* ft_otp -g key.txt
ProcessHexFile ==
    /\ otp_result.op = "none"
    /\ \E r \in {process_hex_file(otp_files, "key.txt")} :
         /\ otp_files' = r.files
         /\ otp_result' = [NoResult EXCEPT
                             !.op = "process_hex_file", !.hex_file = "key.txt",
                             !.raised = r.raised, !.before = otp_files]
    /\ UNCHANGED << mainVars, monitorVars, estimatorVars >>

\* ft_otp -k ft_otp.key, at any moment: before or after a key was stored
ProcessKeyFile ==
    /\ otp_result.op \in {"none", "process_hex_file"}
    /\ \E hmac_bytes \in Digests :
         \E r \in {process_key_file(otp_files, "ft_otp.key", hmac_bytes)} :
         /\ otp_files' = r.files
         /\ otp_result' = [NoResult EXCEPT
                             !.op = "process_key_file", !.raised = r.raised,
                             !.before = otp_files,
                             !.hmac_bytes = IF r.raised = "" THEN hmac_bytes ELSE << >>,
                             !.otp = r.otp]
    /\ UNCHANGED << mainVars, monitorVars, estimatorVars >>

OtpInit ==
    /\ FsNone /\ ProcessInit /\ MonitorsInit /\ EstimatorIdle
    /\ otp_files \in
         {[f \in OtpPaths |->
              IF f = "key.txt" THEN hex
              ELSE IF f = "ft_otp.key" THEN token ELSE fernet_key] :
            hex \in {OtpAbsent} \cup {TextFile(t) : t \in KeyTexts},
            token \in {OtpAbsent, Token("stored", ValidKeyText)},
            fernet_key \in {OtpAbsent, KeyFile("stored"), KeyFile("garbage")}}
    /\ otp_result = NoResult
OtpNext == ProcessHexFile \/ ProcessKeyFile
OtpSpec == OtpInit /\ [][OtpNext]_vars

\* ------------------------------------------------------------------ claims
\* a step in which the event handler handled one event
Handled == Len(batch') + Len(queue') < Len(batch) + Len(queue)
\* ... and the event was a close-after-write
HandledWrite == Handled /\ last'.op = "event" /\ IsCloseWrite(last'.ev)
\* the path of the event handled by the step
EvPath == last'.full_path
\* what the file system holds at p when the handler reads it
ReadOkAt(p)    == IsFile(p) /\ fs_file[p].readable /\ fs_file[p].data # << >>
ReadEmptyAt(p) == IsFile(p) /\ fs_file[p].readable /\ fs_file[p].data = << >>
EntropyAt(p)   == _shannon_entropy(fs_file[p].data)
MoreThan7_5(e) == 10 * e > 75 * Scale
MoreThan1_5(d) == 10 * d > 15 * Scale
EntropyKinds == {"crypto_new", "new_high", "crypto_known", "high_known"}

\* C1: a close-after-write event on F whose read succeeds with at least one
\* byte leaves baseline[F] equal to the entropy of the data read, whether F
\* was known or new and whether or not a warning was emitted.
C1_BaselineUpdate ==
    [][ HandledWrite /\ ReadOkAt(EvPath)
        => /\ EvPath \in DOMAIN _file_entropy'
           /\ _file_entropy'[EvPath] = EntropyAt(EvPath) ]_vars

\* a known file was rewritten, a warning was emitted, and the baseline holds
\* the new entropy
C1_Witness ==
    /\ last.op = "event" /\ last.read = "ok" /\ last.was_known
    /\ Len(last.log) = 1
    /\ last.prev # _shannon_entropy(last.data)
    /\ _file_entropy[last.full_path] = _shannon_entropy(last.data)

\* C2: for a path that is not in the baseline and a successful non-empty
\* read, exactly one warning is emitted when E > 7.5 and none when E <= 7.5.
C2_NewFileRule ==
    [][ HandledWrite /\ ReadOkAt(EvPath) /\ EvPath \notin DOMAIN _file_entropy
        => IF MoreThan7_5(EntropyAt(EvPath))
           THEN /\ Len(last'.log) = 1
                /\ last'.log[1].level = "warning"
                /\ last'.log[1].kind \in {"crypto_new", "new_high"}
                /\ last'.log[1].path = EvPath
           ELSE last'.log = << >> ]_vars

\* a new file of entropy above 7.5 produced its one warning
C2_Witness ==
    /\ last.op = "event" /\ last.read = "ok" /\ ~last.was_known
    /\ MoreThan7_5(_shannon_entropy(last.data))
    /\ Len(last.log) = 1

\* C3: for a path in the baseline with value E_prev and a successful
\* non-empty read of entropy E, exactly one warning reporting E_prev, E and
\* E - E_prev is emitted if and only if E > 7.5 or E - E_prev > 1.5;
\* otherwise nothing is emitted.
C3_KnownFileRule ==
    [][ HandledWrite /\ ReadOkAt(EvPath) /\ EvPath \in DOMAIN _file_entropy
        => LET E == EntropyAt(EvPath)
               E_prev == _file_entropy[EvPath]
           IN  IF MoreThan7_5(E) \/ MoreThan1_5(E - E_prev)
               THEN /\ Len(last'.log) = 1
                    /\ last'.log[1].level = "warning"
                    /\ last'.log[1].kind \in {"crypto_known", "high_known"}
                    /\ last'.log[1].path = EvPath
                    /\ last'.log[1].prev = Fmt2(E_prev)
                    /\ last'.log[1].cur = Fmt2(E)
                    /\ last'.log[1].delta = Fmt2(E - E_prev)
               ELSE last'.log = << >> ]_vars

\* a known file rose by more than 1.5 to at most 7.5 and produced its one
\* warning
C3_Witness ==
    /\ last.op = "event" /\ last.read = "ok" /\ last.was_known
    /\ ~MoreThan7_5(_shannon_entropy(last.data))
    /\ MoreThan1_5(_shannon_entropy(last.data) - last.prev)
    /\ Len(last.log) = 1
    /\ last.log[1].kind = "high_known"

\* C4: an entropy warning is the cryptographic-activity variant exactly when
\* C = (readers sampled for this event) \ (baseline readers) is non-empty,
\* it then lists exactly C, and it never lists a baseline reader.
C4_CryptoVariant ==
    (last.op = "event" /\ last.read = "ok" /\ last.log # << >>)
    => LET C == last.sampled \ _baseline_readers
           w == last.log[1]
       IN  /\ w.kind \in EntropyKinds
           /\ (w.kind \in {"crypto_new", "crypto_known"}) <=> (C # {})
           /\ w.pids = C
           /\ w.pids \cap _baseline_readers = {}

\* a warning names the one new reader while a baseline reader is also
\* holding the device open
C4_Witness ==
    /\ last.op = "event" /\ last.read = "ok" /\ last.log # << >>
    /\ _baseline_readers # {}
    /\ _baseline_readers \subseteq last.sampled
    /\ last.log[1].pids = last.sampled \ _baseline_readers
    /\ last.log[1].pids # {}

\* C5: a close-after-write event whose open or read fails emits exactly one
\* warning, of the deleted kind, does not classify (no entropy warning, no
\* baseline change) and leaves the event loop running.
C5_ReadFailure ==
    [][ HandledWrite /\ ~IsFile(EvPath)
        => /\ Len(last'.log) = 1
           /\ last'.log[1].level = "warning"
           /\ last'.log[1].kind = "deleted"
           /\ last'.log[1].path = EvPath
           /\ _file_entropy' = _file_entropy
           /\ pc' = "loop" ]_vars

\* the file of a close-after-write event was gone when the handler read it
C5_Witness ==
    /\ last.op = "event" /\ last.detected /\ last.read = "fail"
    /\ Len(last.log) = 1 /\ last.log[1].kind = "deleted"
    /\ pc = "loop"

\* C6: a close-after-write event whose read returns zero bytes emits exactly
\* one warning, of the empty kind, and leaves the baseline, the monitored
\* path set and the watch descriptor map as they were.
C6_EmptyRead ==
    [][ HandledWrite /\ ReadEmptyAt(EvPath)
        => /\ Len(last'.log) = 1
           /\ last'.log[1].level = "warning"
           /\ last'.log[1].kind = "empty"
           /\ last'.log[1].path = EvPath
           /\ _file_entropy' = _file_entropy
           /\ _path' = _path
           /\ _wd_to_path' = _wd_to_path ]_vars

\* a known file was truncated to nothing and its baseline value survived
C6_Witness ==
    /\ last.op = "event" /\ last.detected /\ last.read = "empty"
    /\ last.was_known
    /\ last.full_path \in DOMAIN _file_entropy
    /\ _file_entropy[last.full_path] = last.prev
    /\ Len(last.log) = 1

\* C7: a failed read of a known file F leaves baseline[F] = E_prev, and if
\* the next close-after-write event on F reads entropy E with
\* E - E_prev > 1.5, that event emits the known-file warning computed
\* against E_prev.
C7_FailedReadKeepsBaseline ==
    [][ /\ (HandledWrite /\ ~IsFile(EvPath) /\ EvPath \in DOMAIN _file_entropy)
           => /\ EvPath \in DOMAIN _file_entropy'
              /\ _file_entropy'[EvPath] = _file_entropy[EvPath]
        /\ (HandledWrite /\ ReadOkAt(EvPath) /\ EvPath \in DOMAIN miss
              /\ MoreThan1_5(EntropyAt(EvPath) - miss[EvPath]))
           => /\ Len(last'.log) = 1
              /\ last'.log[1].kind \in {"crypto_known", "high_known"}
              /\ last'.log[1].prev = Fmt2(miss[EvPath])
              /\ last'.log[1].cur = Fmt2(EntropyAt(EvPath))
              /\ last'.log[1].delta = Fmt2(EntropyAt(EvPath) - miss[EvPath]) ]_vars

\* the event after a failed read warned about a rise measured from the
\* value the baseline held when the read failed
C7_Witness ==
    /\ last.op = "event" /\ last.read = "ok" /\ last.after_miss
    /\ MoreThan1_5(_shannon_entropy(last.data) - last.prev)
    /\ Len(last.log) = 1
    /\ last.log[1].kind = "high_known"
    /\ last.log[1].prev = Fmt2(last.prev)

\* the kernel delivers the events of directory d to the watcher, which
\* joins them to the path d
Delivered(d) ==
    \E wd \in DOMAIN k_watch :
        /\ k_watch[wd] = fs_dir[d]
        /\ wd \in DOMAIN _wd_to_path
        /\ _wd_to_path[wd] = d

\* C8: once the watcher has handled the create event of a directory D, the
\* close-after-write events of the files in D, and in the directories that
\* stood under D at that time, reach the detector, for as long as those
\* directories stand, D having been deleted and created again or not.
C8_DynamicPickup ==
    (pc = "loop" /\ last.op = "event" /\ last.walked /\ last.log = << >>)
    => \A d \in DOMAIN last.tree :
           fs_dir[d] = last.tree[d] => Delivered(d)

\* C9: after construction every directory under a configured root is in the
\* monitored path set with a registered watch, and every file there that
\* reads successfully and non-empty has a baseline value, also when one
\* add_watch call fails.
C9_PathCoverage ==
    (last.op = "construct" /\ ops = 0)
    => /\ \A d \in DOMAIN last.tree : d \in _path /\ Delivered(d)
       /\ \A f \in AllFiles :
              (dirname(f) \in DOMAIN last.tree /\ ReadOkAt(f))
              => f \in DOMAIN _file_entropy

\* how often p is configured, and how often an error record names it
Configured(p) == Cardinality({i \in DOMAIN last.config : last.config[i] = p})
ErrorsFor(p) ==
    Cardinality({j \in DOMAIN last.log :
                    last.log[j].level = "error" /\ last.log[j].path = p})
WatchFailed ==
    \E j \in DOMAIN last.log :
        last.log[j].level = "error" /\ last.log[j].kind = "add_watch"

\* C10: a configured root that does not exist costs one error record, adds
\* nothing to the monitored path set, the watch descriptor map or the
\* baseline, lets construction complete, and the roots that do exist are
\* walked and registered all the same.
C10_MissingRoot ==
    (last.op = "construct" /\ ops = 0)
    => /\ \A i \in DOMAIN last.config :
          LET p == last.config[i]
          IN  IF ~Exists(p)
              THEN /\ ErrorsFor(p) = Configured(p)
                   /\ \A q \in _path : ~IsPrefix(p, q)
                   /\ \A wd \in DOMAIN _wd_to_path : ~IsPrefix(p, _wd_to_path[wd])
                   /\ \A f \in DOMAIN _file_entropy : ~IsPrefix(p, f)
              ELSE /\ (IF IsFile(p) THEN dirname(p) ELSE p) \in _path
                   /\ ~WatchFailed => Delivered(IF IsFile(p) THEN dirname(p) ELSE p)
       /\ pc \in {"loop", "exited"}
       /\ pc = "exited" <=> _path = {}

\* a missing root configured ahead of an existing one: one error record,
\* and the existing root is watched
C10_Witness ==
    /\ last.op = "construct" /\ ops = 0 /\ pc = "loop"
    /\ last.config = << M, R >>
    /\ Len(last.log) = 1 /\ last.log[1].kind = "not_found" /\ last.log[1].path = M
    /\ R \in _path /\ Delivered(R)

\* C11: a configured root that is an existing regular file stands for its
\* parent directory: after construction the parent is in the monitored path
\* set, and unless an add_watch call failed the parent's whole subtree is
\* registered and watched and its readable non-empty files have a baseline
\* value, as for a directory root.
C11_FileRoot ==
    (last.op = "construct" /\ ops = 0)
    => \A i \in DOMAIN last.config :
           IsFile(last.config[i])
           => LET parent == dirname(last.config[i])
              IN  /\ parent \in _path
                  /\ ~WatchFailed
                     => /\ \A d \in Under({parent}) : d \in _path /\ Delivered(d)
                        /\ \A f \in AllFiles :
                               (dirname(f) \in Under({parent}) /\ ReadOkAt(f))
                               => f \in DOMAIN _file_entropy

\* the only configured root is the file /r/d/f: its directory /r/d is
\* watched, the file has its baseline value, and /r is not monitored
C11_Witness ==
    /\ last.op = "construct" /\ ops = 0 /\ pc = "loop"
    /\ last.config = << DF >> /\ IsFile(DF) /\ ReadOkAt(DF)
    /\ D \in _path /\ Delivered(D) /\ R \notin _path
    /\ DF \in DOMAIN _file_entropy

\* the critical record main logs before it gives up
HasCritical(log) == \E j \in DOMAIN log : log[j].level = "critical"

\* C12: when construction leaves the monitored path set empty the daemon
\* logs a critical record, handles no event (the last thing the main thread
\* did stays the construction, nothing is taken from the queue) and the
\* process has exited with a non-zero status.
C12_EmptyPathSet ==
    (pc # "start" /\ _path = {} /\ last.op \notin {"sigterm", "logging"})
    => /\ last.op = "construct"
       /\ HasCritical(last.log)
       /\ pc = "exited" /\ exit_status # 0
       /\ batch = << >>

\* only a missing root was configured
C12_Witness ==
    /\ last.op = "construct" /\ last.config = << M >>
    /\ _path = {} /\ pc = "exited" /\ exit_status = 1
    /\ HasCritical(last.log)

\* C13: an event that is neither create-and-is-directory nor
\* close-after-write is ignored: handling it changes no field of the
\* watcher, logs and prints nothing and leaves the event loop running,
\* whatever its watch handle is.
C13_OtherEventsIgnored ==
    [][(Handled /\ ~IsCreateDir(Head(Pending)) /\ ~IsCloseWrite(Head(Pending)))
       => /\ UNCHANGED << watcherVars, stdout, stderr >>
          /\ last'.log = << >>
          /\ pc' = "loop"]_vars

\* C14: a termination signal makes the process exit with status 0.
C14_SigtermExitsZero ==
    last.op = "sigterm" => pc = "exited" /\ exit_status = 0

\* the failures of the main thread: logging setup, an empty monitored path
\* set after construction, an exception of the event loop
MainFailed ==
    \/ last.op \in {"logging", "keyerror"}
    \/ last.op = "construct" /\ _path = {}

\* C15: a failure of the main thread is reported on standard error and
\* ends the process with a non-zero status.
C15_FailureOnStderr ==
    MainFailed => pc = "exited" /\ exit_status # 0 /\ stderr # << >>

\* C16: a memory sample is logged as critical exactly when the sampled
\* resident-set size, as the kernel reports it in kB, is more than 100 MB.
C16_MemoryCritical ==
    mon.worker = "memory" => (HasCritical(mon.log) <=> mon.kb > KB(100))

HasWarning(log) == \E j \in DOMAIN log : log[j].level = "warning"
\* (sectors_delta * 512) / (time_delta * 2^20) > 100, for the deltas of one
\* iteration; no rate is computed when time_delta is zero
RateAbove100(sectors_delta, time_delta) ==
    \/ time_delta > 0 /\ sectors_delta * 512 > 100 * time_delta * 2 ^ 20
    \/ time_delta < 0 /\ sectors_delta * 512 < 100 * time_delta * 2 ^ 20

\* C17, as amended: an iteration of the disk monitor logs a warning exactly
\* when the rate (sectors_delta * 512) / (time_delta * 2^20) it computes is
\* strictly greater than 100; a rate of exactly 100 logs nothing, and a
\* negative sectors delta logs nothing when the wall-clock delta is positive.
C17_DiskRateRule ==
    mon.worker = "disk"
    => /\ HasWarning(mon.log) <=> RateAbove100(mon.sectors_delta, mon.time_delta)
       /\ (mon.sectors_delta < 0 /\ mon.time_delta > 0) => mon.log = << >>

\* C17, as stated: ... and a negative sectors delta logs nothing, whatever
\* the wall-clock delta is.
C17_Original ==
    mon.worker = "disk"
    => /\ HasWarning(mon.log) <=> RateAbove100(mon.sectors_delta, mon.time_delta)
       /\ mon.sectors_delta < 0 => mon.log = << >>

\* one sector more than 100 MB read in one second: a warning
C17_Witness ==
    /\ mon.worker = "disk"
    /\ mon.sectors_delta = SectorsOf(100) + 1 /\ mon.time_delta = 1
    /\ HasWarning(mon.log)

\* C18: the estimator's value for a buffer of at least one byte is between
\* 0.0 and 8.0, and so is the baseline value stored for it.
C18_EntropyRange ==
    est.scored
    => /\ 0 <= est.entropy /\ est.entropy <= 8 * Scale
       /\ \A p \in DOMAIN est.ent : 0 <= est.ent[p] /\ est.ent[p] <= 8 * Scale

\* every byte value equally often: 8.0 bits, stored as the file's baseline
C18_Witness ==
    /\ est.scored /\ Len(est.data) = 1 /\ est.data[1].n = 256
    /\ est.entropy = 8 * Scale
    /\ DF \in DOMAIN est.ent /\ est.ent[DF] = 8 * Scale

\* C19: a non-empty buffer of one repeated byte value has entropy exactly
\* 0.0, and as a new file it is stored without a warning.
C19_UniformZero ==
    (est.scored /\ Len(est.data) = 1 /\ est.data[1].n = 1)
    => est.entropy = 0 /\ est.log = << >> /\ est.ent[DF] = 0

\* a full read of one repeated byte
C19_Witness ==
    /\ est.scored
    /\ est.data = << [n |-> 1, c |-> ENTROPY_READ_SIZE] >>
    /\ est.entropy = 0 /\ est.log = << >>

\* the stripped text of key.txt before the command ran
KeyBefore == strip(otp_result.before["key.txt"].text)

\* C20: process_hex_file on a key file whose stripped content has fewer than
\* 64 characters or holds a character that is no hexadecimal digit raises
\* ValueError and leaves every file as it was: ft_otp.key and filekey.key
\* are neither created nor changed.
C20_InvalidKeyRejected ==
    (/\ otp_result.op = "process_hex_file"
     /\ otp_result.before["key.txt"].exists
     /\ \/ StrLen(KeyBefore) < 64
        \/ \E i \in DOMAIN KeyBefore : KeyBefore[i].ch \notin HexDigits)
    => /\ otp_result.raised = "ValueError"
       /\ otp_files = otp_result.before

\* a key of 63 hexadecimal digits, no key files yet: ValueError, and none
\* was created
C20_Witness ==
    /\ otp_result.op = "process_hex_file"
    /\ otp_result.before["key.txt"] = TextFile(<< [ch |-> "a", n |-> 63] >>)
    /\ otp_result.raised = "ValueError"
    /\ ~otp_files["ft_otp.key"].exists /\ ~otp_files["filekey.key"].exists

\* a kernel watch descriptor that is still registered stands for d in the
\* watch descriptor map
LiveWatch(d) ==
    \E wd \in DOMAIN k_watch : wd \in DOMAIN _wd_to_path /\ _wd_to_path[wd] = d

\* the token ft_otp -k found, and the number its output spells
StoredKey == otp_result.before["ft_otp.key"]
RECURSIVE DecimalValue(_)
DecimalValue(text) ==
    IF text = << >> THEN 0
    ELSE 10 * DecimalValue(SubSeq(text, 1, Len(text) - 1))
         + (CHOOSE v \in 0..9 : DecimalDigits[v + 1] = text[Len(text)])

\* C21: process_key_file on a stored key of at least 64 hexadecimal digits,
\* encrypted under the key of filekey.key, returns exactly 6 decimal digits
\* for every digest: they spell, padded with zeros, the 31-bit value of the
\* 4 bytes at the offset 0..15 the last byte's low bits give, modulo
\* 1,000,000.
C21_SixDigitCode ==
    (/\ otp_result.op = "process_key_file"
     /\ StoredKey.exists /\ StoredKey.kind = "token"
     /\ otp_result.before["filekey.key"].exists
     /\ StoredKey.key = otp_result.before["filekey.key"].key
     /\ StrLen(StoredKey.text) >= 64
     /\ \A i \in DOMAIN StoredKey.text : StoredKey.text[i].ch \in HexDigits)
    => /\ otp_result.raised = ""
       /\ Len(otp_result.otp) = 6
       /\ \A i \in DOMAIN otp_result.otp :
              \E v \in 0..9 : otp_result.otp[i] = DecimalDigits[v + 1]
       /\ \E at \in 0..15 :
              /\ at = otp_result.hmac_bytes[DIGEST_SIZE] % 16
              /\ DecimalValue(otp_result.otp)
                   = ((otp_result.hmac_bytes[at + 1] % 128) * 2 ^ 24
                      + otp_result.hmac_bytes[at + 2] * 2 ^ 16
                      + otp_result.hmac_bytes[at + 3] * 2 ^ 8
                      + otp_result.hmac_bytes[at + 4]) % 1000000

\* C22: in every reachable state every element of the monitored path set
\* has a live kernel watch descriptor, also after a watched directory was
\* deleted and after an add_watch call failed during a walk.
C22_PathsHaveLiveWatch == \A d \in _path : LiveWatch(d)

\* C23: in every reachable state no two watch descriptors of the watch
\* descriptor map stand for the same directory path, and every path the map
\* holds is in the monitored path set, whatever directories other processes
\* create, delete and rename under the watched root.
C23_MapInjective ==
    /\ \A wd1, wd2 \in DOMAIN _wd_to_path :
           _wd_to_path[wd1] = _wd_to_path[wd2] => wd1 = wd2
    /\ \A wd \in DOMAIN _wd_to_path : _wd_to_path[wd] \in _path

\* X, watched from the start, was renamed to D/n before the walk of the new
\* D came to it: add_watch gave the descriptor X had, which now stands for
\* D/n, and X, still in the path set, has none
C23_Witness ==
    /\ {X, D, N} \subseteq _path
    /\ fs_dir[N] = InitInodes[X]
    /\ \E wd \in DOMAIN _wd_to_path :
          _wd_to_path[wd] = N /\ wd \in DOMAIN k_watch /\ k_watch[wd] = fs_dir[N]
    /\ ~\E wd \in DOMAIN _wd_to_path : _wd_to_path[wd] = X

\* C24: a step that gives a path of the baseline its value reads the
\* regular file at that path successfully, stores the entropy of what it
\* read, and does so for a path under watch: the directory of the path has
\* a watch that the map joins to it, and when the step handles an event,
\* the event comes from that watch, not from a watch whose directory has
\* since been renamed away from the path.
C24_NoStaleAttribution ==
    [][ \A f \in AllFiles :
          (/\ f \in DOMAIN _file_entropy'
           /\ f \in DOMAIN _file_entropy => _file_entropy'[f] # _file_entropy[f])
          => /\ ReadOkAt(f)
             /\ _file_entropy'[f] = EntropyAt(f)
             /\ \E wd \in DOMAIN k_watch' :
                    /\ k_watch'[wd] = fs_dir[dirname(f)]
                    /\ wd \in DOMAIN _wd_to_path'
                    /\ _wd_to_path'[wd] = dirname(f)
             /\ HandledWrite
                  => /\ last'.ev.wd \in DOMAIN k_watch
                     /\ k_watch[last'.ev.wd] = fs_dir[dirname(f)] ]_vars

\* C25: when construction is over, the main thread is in its event loop if
\* at least one kernel watch was registered, and has logged the critical
\* record and exited if none was, every add_watch call having failed
\* included.
C25_LoopNeedsWatch ==
    (last.op = "construct" /\ ops = 0)
    => IF k_watch = EmptyMap
       THEN pc = "exited" /\ HasCritical(last.log)
       ELSE pc = "loop"

\* C26: a path enters the baseline only in a step that reads the file at
\* that path successfully and finds at least one byte, during a walk or for
\* its close-after-write event; a file that is empty or cannot be opened
\* when its directory is walked stays out, and its first close-after-write
\* event with a successful non-empty read is judged by the new-file rule:
\* one warning of a new-file kind when the entropy is above 7.5, nothing
\* otherwise, whatever the rise.
C26_KnownByFirstRead ==
    [][ /\ \A f \in AllFiles :
              (f \notin DOMAIN _file_entropy /\ f \in DOMAIN _file_entropy')
              => /\ ReadOkAt(f)
                 /\ _file_entropy'[f] = EntropyAt(f)
                 /\ last'.walked \/ (HandledWrite /\ EvPath = f)
        /\ \A f \in AllFiles :
              (last'.walked /\ IsFile(f) /\ ~ReadOkAt(f)
                 /\ f \notin DOMAIN _file_entropy)
              => f \notin DOMAIN _file_entropy'
        /\ (HandledWrite /\ ReadOkAt(EvPath) /\ EvPath \notin DOMAIN _file_entropy)
           => /\ ~last'.was_known
              /\ IF MoreThan7_5(EntropyAt(EvPath))
                 THEN /\ Len(last'.log) = 1
                      /\ last'.log[1].kind \in {"crypto_new", "new_high"}
                 ELSE last'.log = << >> ]_vars

\* D/f had no baseline value after the walk of D (it was missing, empty or
\* could not be opened), was then written with data of entropy above 7.5
\* and got the new-file warning and its first baseline value
C26_Witness ==
    /\ last.op = "event" /\ last.detected /\ last.read = "ok"
    /\ last.full_path = DF /\ ~last.was_known
    /\ ops = 1
    /\ Len(last.log) = 1 /\ last.log[1].kind \in {"crypto_new", "new_high"}
    /\ DF \in DOMAIN _file_entropy

\* C27: the handler takes the events of a batch in the order the kernel
\* queued them, one whole event at a time; an event on a file follows the
\* event before it with that event's baseline in place: when two
\* close-after-write events on one file are handled one after the other,
\* the second is judged as a known file against the entropy the first read.
C27_BatchOrder ==
    [][ Handled
        => LET delivered == IF batch # << >> THEN batch ELSE queue
           IN  /\ last'.ev = delivered[1]
               /\ batch' = SubSeq(delivered, 2, Len(delivered))
               /\ (/\ last.op = "event" /\ last.detected /\ last.read = "ok"
                   /\ last.data # << >>
                   /\ HandledWrite /\ EvPath = last.full_path
                   /\ ReadOkAt(EvPath))
                  => LET E_prev == _shannon_entropy(last.data)
                         E == EntropyAt(EvPath)
                     IN  /\ last'.was_known
                         /\ last'.prev = E_prev
                         /\ _file_entropy'[EvPath] = E
                         /\ IF MoreThan7_5(E) \/ MoreThan1_5(E - E_prev)
                            THEN /\ Len(last'.log) = 1
                                 /\ last'.log[1].kind \in {"crypto_known", "high_known"}
                                 /\ last'.log[1].prev = Fmt2(E_prev)
                            ELSE last'.log = << >> ]_vars

\* the first of two close-after-write events on one file, read in one
\* batch, has been handled and has set the baseline the second will meet
C27_Witness ==
    /\ last.op = "event" /\ last.detected /\ last.read = "ok"
    /\ ~last.was_known
    /\ batch # << >>
    /\ batch[1].wd = last.ev.wd /\ batch[1].name = last.ev.name
    /\ IsCloseWrite(batch[1])
    /\ _file_entropy[last.full_path] = _shannon_entropy(last.data)

\* C28: the baseline random readers are set in one step only, the
\* construction of the watcher, and no later step, whether it handles an
\* event, walks a new directory or probes the readers, changes them.
C28_BaselineReadersFrozen ==
    [][ (_baseline_readers' # _baseline_readers)
        => (pc = "start" /\ last'.op = "construct") ]_vars

\* the detector's probe found other readers than the baseline, which stays
C28_Witness ==
    /\ pc = "loop" /\ last.op = "event" /\ last.detected
    /\ _baseline_readers = {7}
    /\ last.sampled = {9}

\* C29: whenever a step of the memory monitor or of the disk monitor is
\* taken, in any interleaving with the main thread, the monitored path set,
\* the watch descriptor map, the file entropy baseline and the baseline
\* random readers are the same after the step as before it.
C29_MonitorsLeaveWatcher ==
    [][(MemorySample \/ DiskStart \/ DiskIteration)
       => UNCHANGED << _path, _wd_to_path, _file_entropy, _baseline_readers >>]_vars

\* the disk monitor has just logged a warning while the watcher, in its
\* loop, holds baselines and has handled an event
C29_Witness ==
    /\ pc = "loop" /\ last.op = "event"
    /\ _path # {} /\ _file_entropy # EmptyMap /\ _wd_to_path # EmptyMap
    /\ mon.worker = "disk" /\ HasWarning(mon.log)

\* C30: a memory sample logs exactly one record, chosen by the value in
\* whole megabytes (0 when the status file has no VmRSS line): critical
\* above 100, informational "high" above 80 and up to 100, routine
\* informational otherwise.
C30_MemoryLevels ==
    mon.worker = "memory"
    => LET mb == IF mon.found THEN mon.kb \div 1024 ELSE 0
           record == mon.log[1]
       IN  /\ Len(mon.log) = 1
           /\ record.mb = mb
           /\ mb > 100 => record.level = "critical" /\ record.kind = "memory_limit"
           /\ (mb > 80 /\ mb <= 100)
                => record.level = "info" /\ record.kind = "memory_high"
           /\ mb <= 80 => record.level = "info" /\ record.kind = "memory"

\* a sample of exactly 100 MB is logged as "high"
C30_Witness ==
    /\ mon.worker = "memory" /\ mon.found /\ mon.kb = KB(100)
    /\ mon.log = << [level |-> "info", kind |-> "memory_high", mb |-> 100] >>

C32_PreviousIsLastSample ==
    [][\A current_sectors_read \in SectorSamples, current_timestamp \in Timestamps :
          (DiskStep(current_sectors_read, current_timestamp) /\ disk_pc' = "loop")
          => /\ mon'.sectors_delta = current_sectors_read - prev_sectors_read
             /\ mon'.time_delta = current_timestamp - prev_timestamp
             /\ prev_sectors_read' = current_sectors_read
             /\ prev_timestamp' = current_timestamp]_vars

\* an iteration that followed a first sample other than zero has logged a
\* warning and stored its own sample
C32_Witness ==
    /\ mon.worker = "disk" /\ disk_pc = "loop" /\ HasWarning(mon.log)
    /\ mon.sectors_delta # mon.sectors
    /\ prev_sectors_read = mon.sectors /\ prev_timestamp = mon.timestamp

\* the lines of a diskstats file that name a whole physical disk, and the
\* sum of their sixth field
WholeDisks(lines) ==
    {i \in DOMAIN lines : /\ lines[i].major \in {8, 65, 66, 67, 252, 253, 259}
                          /\ lines[i].minor = 0}
RECURSIVE SectorsOn(_, _)
SectorsOn(lines, I) ==
    IF I = {} THEN 0
    ELSE LET i == CHOOSE j \in I : TRUE
         IN  lines[i].sectors + SectorsOn(lines, I \ {i})

\* C33: the disk monitor's sample of a diskstats file is the sum of the
\* sectors-read field over the lines whose major is one of 8, 65, 66, 67,
\* 252, 253, 259 and whose minor is 0, and 0 when there is no such line.
C33_DiskSectorSample ==
    mon.worker = "disk_start"
    => /\ prev_sectors_read = SectorsOn(diskstats, WholeDisks(diskstats))
       /\ WholeDisks(diskstats) = {} => prev_sectors_read = 0

\* a disk, one of its partitions and a loop device: the disk alone counts
C33_Witness ==
    /\ mon.worker = "disk_start"
    /\ diskstats = << [major |-> 8, minor |-> 0, sectors |-> 10],
                      [major |-> 8, minor |-> 1, sectors |-> 1],
                      [major |-> 7, minor |-> 0, sectors |-> 1] >>
    /\ prev_sectors_read = 10

\* C36: once the main thread has ended the process is gone: neither monitor
\* takes another step, wherever it was.
C36_MonitorsEndWithMain ==
    [][pc = "exited" => UNCHANGED monitorVars]_vars

\* the termination signal ended the process while the disk monitor was in
\* its loop and the memory monitor had taken the last sample
C36_Witness ==
    /\ pc = "exited" /\ last.op = "sigterm"
    /\ disk_pc = "loop" /\ mon.worker = "memory"

\* C40: the disk monitor is before or in its loop whatever it sampled.
C40_DiskKeepsIterating == disk_pc \in {"init", "loop"}

\* the watcher as the handler of the step finds it
Before ==
    [path |-> _path, wd2p |-> _wd_to_path, ent |-> _file_entropy,
     kw |-> k_watch, nwd |-> nextWd, log |-> << >>]
\* the contents that have the same first ENTROPY_READ_SIZE bytes as file
SamePrefix(file) ==
    {other \in LongFiles \cup {File(Text)} : other.data = file.data}

\* C34: when a close-after-write event is handled, any content with the
\* same first 65,536 bytes as the file's, handled from the same watcher
\* state with the same readers of /dev/urandom, would have logged the same
\* records and stored the same baseline value.
C34_ScoredOnPrefix ==
    [][HandledWrite
       => \A other \in SamePrefix(fs_file[EvPath]) :
            LET alt == DetectOn(Before, EvPath, OpenRead(other), last'.sampled)
            IN  /\ alt.W.log = last'.log
                /\ alt.W.ent = _file_entropy'
                /\ alt.data = last'.data]_vars

\* a file of 131,072 bytes whose two halves together have 8.0 bits per byte
\* was scored 7.0, the entropy of its first half, and logged nothing
C34_Witness ==
    /\ last.op = "event" /\ last.read = "ok" /\ last.full_path = DF
    /\ fs_file[DF] = LongFile(Packed, Packed)
    /\ last.data = Packed /\ last.log = << >>
    /\ DF \in DOMAIN _file_entropy /\ _file_entropy[DF] = 7 * Scale

\* C35: no step removes a key of the file entropy baseline or an element
\* of the monitored path set.
C35_KeysAndPathsGrow ==
    [][/\ DOMAIN _file_entropy \subseteq DOMAIN _file_entropy'
       /\ _path \subseteq _path']_vars

\* the close-after-write of a file that is gone has been handled, and the
\* file still has its baseline and its directory is still monitored
C35_Witness ==
    /\ last.op = "event" /\ last.read = "fail"
    /\ ~IsFile(last.full_path)
    /\ last.full_path \in DOMAIN _file_entropy
    /\ dirname(last.full_path) \in _path

\* C37: the walk run for the create event of a path whose directories are
\* all in the monitored path set registers no watch and changes neither the
\* watch descriptor map nor the path set nor the baseline; and no walk run
\* for an event changes the baseline value of a path that had one.
C37_RewalkIdempotent ==
    [][(Handled /\ last'.op = "event" /\ last'.walked)
       => /\ Under({EvPath}) \subseteq _path
             => UNCHANGED << k_watch, nextWd, _wd_to_path, _path, _file_entropy >>
          /\ \A f \in DOMAIN _file_entropy :
                f \in DOMAIN _file_entropy' /\ _file_entropy'[f] = _file_entropy[f]]_vars

\* the create event of a directory that was removed and made again has
\* been handled: the directory stands as it was walked, it is in the path
\* set, and the walk neither registered a watch on it nor logged anything
C37_Witness ==
    /\ last.op = "event" /\ last.walked /\ last.log = << >>
    /\ IsDir(last.full_path) /\ last.full_path \in _path
    /\ last.full_path \in DOMAIN last.tree
    /\ last.tree[last.full_path] = fs_dir[last.full_path]
    /\ ~Delivered(last.full_path)

\* C38: a run that logged a warning is the handling of a close-after-write
\* event; the construction and the walk run for a create event log nothing
\* but the errors of paths and the critical record of an empty path set.
C38_SeedingNeverWarns ==
    /\ HasWarning(last.log) => last.op = "event" /\ last.detected /\ IsCloseWrite(last.ev)
    /\ (last.walked /\ ~last.detected)
         => \A j \in DOMAIN last.log :
               /\ last.log[j].level \in {"error", "critical"}
               /\ last.log[j].kind \in {"not_found", "add_watch", "no_valid_path"}

\* construction has given /r/d/f, which holds random bytes, a baseline of
\* 8.0 bits and logged nothing
C38_Witness ==
    /\ last.op = "construct" /\ ops = 0 /\ last.log = << >>
    /\ IsFile(DF) /\ fs_file[DF].data = Random
    /\ DF \in DOMAIN _file_entropy /\ MoreThan7_5(_file_entropy[DF])

\* the error records of a run
Errors(log) == {j \in DOMAIN log : log[j].level = "error"}

\* C39: the walk run for a create event logs exactly one error record when
\* the directory is gone, at most one otherwise (a failed add_watch), and
\* the main thread stays in its loop with nothing printed; construction
\* logs one error record for each configured path that does not exist and
\* at most one for each other path, and every configured path that exists
\* has its directory in the monitored path set, whatever failed before it.
C39_WalkErrorsContained ==
    [][/\ (Handled /\ last'.op = "event" /\ last'.walked)
          => /\ IF ~Exists(EvPath)
                THEN last'.log = << ErrorRecord("not_found", EvPath) >>
                ELSE \/ last'.log = << >>
                     \/ /\ Len(last'.log) = 1
                        /\ last'.log[1].level = "error"
                        /\ last'.log[1].kind = "add_watch"
             /\ pc' = "loop"
             /\ UNCHANGED << exit_status, stdout, stderr >>
       /\ (pc = "start" /\ last'.op = "construct")
          => LET config == last'.config
                 missing == {i \in DOMAIN config : ~Exists(config[i])}
                 errors == Errors(last'.log)
             IN  /\ \A i \in missing :
                       \E j \in errors : /\ last'.log[j].kind = "not_found"
                                          /\ last'.log[j].path = config[i]
                 /\ Cardinality(missing) <= Cardinality(errors)
                 /\ Cardinality(errors) <= Len(config)
                 /\ \A i \in (DOMAIN config) \ missing :
                       (IF IsFile(config[i]) THEN dirname(config[i]) ELSE config[i])
                           \in _path'
                 /\ _path' # {} => pc' = "loop"]_vars

\* add_watch failed on the first configured path, /r: one error record,
\* and the directory of the second path is monitored and watched
C39_Witness ==
    /\ last.op = "construct" /\ ops = 0 /\ pc = "loop"
    /\ last.config = << R, DF >>
    /\ last.log = << ErrorRecord("add_watch", R) >>
    /\ D \in _path /\ Delivered(D)

====
